---- MODULE Spec2Model ----
(***************************************************************************)
(* RiskMind query-resolution and agent-orchestration pipeline.             *)
(*                                                                         *)
(*   backend/services/agent_graph.py   the 8-node agent graph              *)
(*   backend/services/intent_engine.py intent routing, confidence, SQL     *)
(*   backend/services/llm_providers.py provider chain, mock response       *)
(*   backend/services/vector_store.py  the two similarity-search corpora   *)
(*                                                                         *)
(* Texts (drafts, responses, contexts) are sequences of tokens; a token    *)
(* carries its spelling and its width in characters, so that the length    *)
(* tests of the code (10, 500, 5000 characters) keep their values.         *)
(* Messages are concrete strings; the substring tests the code makes on    *)
(* message.lower() are tabulated per message in the field kws.             *)
(***************************************************************************)
EXTENDS Integers, Sequences, FiniteSets, TLC

VARIABLES
    state,         \* AgentState: the one mutable object threaded through the graph
    pc,            \* the node about to run, or a point inside reason_node, or "END"
    trace,         \* nodes that have completed in this run, in order
    providers,     \* reason_node's list from get_all_available()
    attempt,       \* the position of reason_node's loop in that list
    llmCalls,      \* chat-completion calls made in this run: <<[name, result]>>
    searches,      \* similarity-search corpora queried in this run
    analyzerCalls, \* media-analyzer calls made in this run
    outcome,       \* how run_agent_pipeline ended and the dict it returned
    request,       \* the message run_intent_pipeline is resolving, with its cache key
    rpc,           \* where _generate_sql_llm waits: "idle", "gemini" or "openai"
    retry,         \* `attempt` of the Gemini retry loop
    env,           \* which of GOOGLE_API_KEY, OPENAI_API_KEY are set; whether the cube is loaded
    _sql_cache,    \* the module's dict of generated SQL, in insertion order
    sqlCalls,      \* SQL-generation calls made so far: <<[name, result]>>
    executed,      \* the statements handed to db.execute, in order
    answers,       \* what run_intent_pipeline returned, request by request
    flights,       \* concurrent executions of _generate_sql_llm: where each one waits
    lookup         \* a call of match_query: its message, the library, what it returned

\* the agent graph's variables, and the query resolver's
agentVars == <<state, pc, trace, providers, attempt, llmCalls, searches, analyzerCalls, outcome>>
resolverVars == <<request, rpc, retry, env, _sql_cache, sqlCalls, executed, answers, flights, lookup>>

vars == <<agentVars, resolverVars>>

(***************************************************************************)
(* Sequences and texts                                                     *)
(***************************************************************************)
Range(s) == { s[i] : i \in 1..Len(s) }

Reverse(s) == [ i \in 1..Len(s) |-> s[Len(s) + 1 - i] ]

\* s[-n:]
LastN(s, n) == IF Len(s) <= n THEN s ELSE SubSeq(s, Len(s) - n + 1, Len(s))

RECURSIVE Flatten(_)
Flatten(ss) == IF ss = <<>> THEN <<>> ELSE Head(ss) \o Flatten(Tail(ss))

Tok(s, w) == [s |-> s, w |-> w]

NL == Tok("\n", 1)
SP == Tok(" ", 3)
Whitespace == {"\n", " "}

RECURSIVE TextLen(_)
TextLen(t) == IF t = <<>> THEN 0 ELSE Head(t).w + TextLen(Tail(t))

RECURSIVE LStrip(_)
LStrip(t) == IF t # <<>> /\ Head(t).s \in Whitespace THEN LStrip(Tail(t)) ELSE t

\* str.strip()
Strip(t) == Reverse(LStrip(Reverse(LStrip(t))))

\* t[:n]: the tokens that fit whole, then the cut token as a fragment
RECURSIVE Take(_, _)
Take(t, n) ==
    IF t = <<>> \/ n <= 0 THEN <<>>
    ELSE IF Head(t).w <= n THEN <<Head(t)>> \o Take(Tail(t), n - Head(t).w)
    ELSE <<Tok("~", n)>>

\* sep.join(parts)
RECURSIVE Join(_, _)
Join(sep, parts) ==
    IF parts = <<>> THEN <<>>
    ELSE IF Len(parts) = 1 THEN Head(parts)
    ELSE Head(parts) \o <<sep>> \o Join(sep, Tail(parts))

(***************************************************************************)
(* Identifier-shaped tokens                                                *)
(***************************************************************************)
\* spellings that match COMM-\d{4}-\d{3} exactly as written (upper case)
UpperCommIds == {"COMM-2024-001", "COMM-2024-016", "COMM-2024-999"}
\* spellings that match it only with re.IGNORECASE
LowerCommIds == {"comm-2024-999"}
\* spellings that match P-\d{4}
ShortPolicyIds == {"P-1234"}
UpperClmIds == {"CLM-2024-005", "CLM-2024-999"}
LowerClmIds == {"clm-2024-005", "clm-2024-999"}

\* str.upper() on the identifier spellings
Upper(s) ==
    CASE s = "comm-2024-999" -> "COMM-2024-999"
      [] s = "clm-2024-005" -> "CLM-2024-005"
      [] s = "clm-2024-999" -> "CLM-2024-999"
      [] OTHER -> s

\* POLICY_REGEX = (COMM-\d{4}-\d{3}|P-\d{4}), re.IGNORECASE
POLICY_REGEX(s) == s \in UpperCommIds \cup LowerCommIds \cup ShortPolicyIds
\* CLAIM_REGEX = (CLM-\d{4}-\d{3}), re.IGNORECASE
CLAIM_REGEX(s) == s \in UpperClmIds \cup LowerClmIds

(***************************************************************************)
(* Keyword lists, as written in the source                                 *)
(***************************************************************************)
PolicyCountPhrases == {"how many policies", "total policies", "number of policies", "policy count"}
EvidenceWords == {"evidence", "photo", "video", "image", "pdf", "document", "report"}
AdHocWords == {"list", "show", "count", "average", "total", "top", "highest", "lowest", "group", "by", "trend", "compare", "how many", "max", "most"}
VisualWords == {"trend", "chart", "plot", "graph", "timeline", "over time", "by month", "by year", "scatter", "map", "geo"}
DocumentWords == {"memo", "draft", "document", "write", "underwriting memo"}
DecideWords == {"should we", "renew", "accept", "decline", "refer", "decision"}
AnalyzeWords == {"trend", "compare", "breakdown", "chart", "dashboard", "analysis", "analyze", "by "}
AnalysisKeywords == {"analyze", "explain", "what does", "what shows", "summarize", "describe", "findings"}
BoostWords == {"summarize", "trend", "dashboard", "memo", "renew", "decision", "recommend"}
OFF_TOPIC_PATTERNS == {"weather", "forecast", "temperature today", "recipe", "cooking", "ingredients", "sports", "football", "basketball", "soccer", "cricket", "baseball", "movie", "film", "netflix", "tv show", "music", "song", "stock market", "crypto", "bitcoin", "forex", "trading", "travel", "vacation", "hotel", "flight", "game", "gaming", "video game", "joke", "tell me a joke", "funny", "write a poem", "write a story", "write code", "translate", "what language", "math problem", "solve this equation", "calculate", "who is the president", "capital of", "population of", "define ", "what is a ", "news today", "latest news", "homework", "assignment", "personal advice", "relationship", "health advice", "medical", "diagnosis", "symptoms"}
INSURANCE_CONTEXT == {"policy", "claim", "premium", "underwriting", "risk", "insurance", "portfolio", "loss", "coverage", "renewal", "guideline", "evidence", "decision", "broker", "insured"}
GEO_KEYWORDS == {"map", "geo", "geography", "spatial", "geospatial", "location", "region"}
EVIDENCE_KEYWORDS == {"evidence", "proof", "citation", "citations", "provenance", "lineage", "source", "sources", "reference", "references", "transparency", "audit trail", "data lineage"}

(***************************************************************************)
(* Messages.  kws: the keywords of the lists above that occur as a         *)
(* substring of message.lower(); policy, claim: the first match of         *)
(* POLICY_REGEX / CLAIM_REGEX as spelled in the message ("" if none);      *)
(* words: len(message.split()); greeting: whether                          *)
(* message.lower().strip().rstrip("!?.,:;") is one of _GREETINGS.          *)
(***************************************************************************)
Messages == {
    [text |-> "hello", kws |-> {}, policy |-> "", claim |-> "", words |-> 1, greeting |-> TRUE],
    [text |-> "show evidence", kws |-> {"evidence", "show"}, policy |-> "", claim |-> "", words |-> 2, greeting |-> FALSE],
    [text |-> "What's the weather today", kws |-> {"weather"}, policy |-> "", claim |-> "", words |-> 4, greeting |-> FALSE],
    [text |-> "Analyze COMM-2024-001", kws |-> {"analyze"}, policy |-> "COMM-2024-001", claim |-> "", words |-> 2, greeting |-> FALSE],
    [text |-> "show claims trend", kws |-> {"claim", "show", "trend"}, policy |-> "", claim |-> "", words |-> 3, greeting |-> FALSE],
    [text |-> "how many policies", kws |-> {"how many", "how many policies"}, policy |-> "", claim |-> "", words |-> 3, greeting |-> FALSE],
    [text |-> "claims by type", kws |-> {"by", "by ", "claim"}, policy |-> "", claim |-> "", words |-> 3, greeting |-> FALSE],
    [text |-> "show me the portfolio overview", kws |-> {"portfolio", "show"}, policy |-> "", claim |-> "", words |-> 5, greeting |-> FALSE],
    [text |-> "summarize evidence for clm-2024-005", kws |-> {"evidence", "summarize"}, policy |-> "", claim |-> "clm-2024-005", words |-> 4, greeting |-> FALSE]
}

\* any(word in lower for word in list)
AnyIn(m, list) == (m.kws \cap list) # {}

\* a history turn: what the two regexes find in its content
Turn(policy, claim) == [policy |-> policy, claim |-> claim]

Histories == {
    <<>>,
    <<Turn("COMM-2024-016", ""), Turn("", "")>>
}

(***************************************************************************)
(* Node 1: route_intent                                                    *)
(***************************************************************************)
NoneVal == "None"

CanonicalFor(m, intent) ==
    IF AnyIn(m, DocumentWords) THEN "Document"
    ELSE IF AnyIn(m, DecideWords) THEN "Decide"
    ELSE IF AnyIn(m, AnalyzeWords) THEN "Analyze"
    ELSE IF intent = "ad_hoc_query" THEN "Analyze"
    ELSE "Understand"

OutputTypeFor(m, intent) ==
    IF AnyIn(m, DocumentWords) THEN "memo"
    ELSE IF AnyIn(m, DecideWords) THEN (IF AnyIn(m, {"card"}) THEN "card" ELSE "decision")
    ELSE IF AnyIn(m, AnalyzeWords) THEN "dashboard"
    ELSE IF intent = "ad_hoc_query" THEN "dashboard"
    ELSE "analysis"

_route_intent(m) ==
    LET policy_match == m.policy # ""
        claim_match == m.claim # ""
        entity == IF policy_match THEN "policy"
                  ELSE IF claim_match THEN "claim" ELSE "portfolio"
        intent0 == IF entity = "policy" THEN "policy_risk_summary"
                   ELSE IF entity = "claim" THEN "claim_summary"
                   ELSE "portfolio_summary"
        keep_portfolio == entity = "portfolio" /\ AnyIn(m, PolicyCountPhrases)
        intent1 == IF AnyIn(m, EvidenceWords) /\ policy_match
                   THEN "policy_risk_summary" ELSE intent0
        intent2 == IF /\ ~policy_match /\ ~claim_match
                      /\ intent1 = "portfolio_summary" /\ ~keep_portfolio
                      /\ AnyIn(m, AdHocWords)
                   THEN "ad_hoc_query" ELSE intent1
        intent == IF AnyIn(m, VisualWords) THEN "ad_hoc_query" ELSE intent2
    IN  [ intent |-> intent,
          entities |-> [ policy_number |-> IF policy_match THEN Upper(m.policy) ELSE NoneVal,
                         claim_number |-> IF claim_match THEN Upper(m.claim) ELSE NoneVal,
                         entity |-> entity ],
          canonical_intent |-> CanonicalFor(m, intent),
          output_type |-> OutputTypeFor(m, intent) ]

\* the history window scanned for an entity
HistoryWindow == 6

HasEntity(entities) ==
    entities.policy_number # NoneVal \/ entities.claim_number # NoneVal

\* the first turn, newest first, of the window that holds an identifier
RECURSIVE FirstWithId(_)
FirstWithId(turns) ==
    IF turns = <<>> THEN Turn("", "")
    ELSE IF Head(turns).policy # "" \/ Head(turns).claim # "" THEN Head(turns)
    ELSE FirstWithId(Tail(turns))

\* a router that scans the whole history, oldest turn first
_resolve_entity_oldest_first(history, payload) ==
    IF HasEntity(payload.entities) THEN payload
    ELSE
      LET hit == FirstWithId(history)
          found == hit.policy # "" \/ hit.claim # ""
          entities ==
            [ policy_number |-> IF hit.policy # "" THEN Upper(hit.policy) ELSE NoneVal,
              claim_number |-> IF hit.claim # "" THEN Upper(hit.claim) ELSE NoneVal,
              entity |-> IF hit.policy # "" THEN "policy" ELSE "claim" ]
      IN  IF ~found THEN payload
          ELSE [payload EXCEPT
                  !.entities = entities,
                  !.intent = IF entities.policy_number # NoneVal
                             THEN "policy_risk_summary" ELSE "claim_summary"]

_resolve_entity_from_history(history, payload) ==
    IF HasEntity(payload.entities) THEN payload
    ELSE
      LET hit == FirstWithId(Reverse(LastN(history, HistoryWindow)))
          found == hit.policy # "" \/ hit.claim # ""
          entities ==
            [ policy_number |-> IF hit.policy # "" THEN Upper(hit.policy) ELSE NoneVal,
              claim_number |-> IF hit.claim # "" THEN Upper(hit.claim) ELSE NoneVal,
              entity |-> IF hit.policy # "" THEN "policy" ELSE "claim" ]
      IN  IF ~found THEN payload
          ELSE [payload EXCEPT
                  !.entities = entities,
                  !.intent = IF entities.policy_number # NoneVal
                             THEN "policy_risk_summary" ELSE "claim_summary"]

_is_out_of_scope(m) ==
    AnyIn(m, OFF_TOPIC_PATTERNS) /\ ~AnyIn(m, INSURANCE_CONTEXT)

(***************************************************************************)
(* Dicts of the pipeline                                                   *)
(***************************************************************************)
EmptyMap == [k \in {} |-> 0]

\* dict.get(k, default)
Get(m, k, default) == IF k \in DOMAIN m THEN m[k] ELSE default

Ev(type, url, local) ==
    [type |-> type, url |-> url, local |-> local, analysis_summary |-> "", content |-> <<>>]

NoProvenance == [citations |-> <<>>, confidence |-> -1, confidence_reason_codes |-> <<>>]

\* keys: the keys the dict holds; {} is the empty dict
Analysis(keys, metrics, evidence, provenance) ==
    [keys |-> keys, metrics |-> metrics, evidence |-> evidence, provenance |-> provenance]

EmptyAnalysis == Analysis({}, EmptyMap, <<>>, NoProvenance)

\* a data snapshot: the pre-fetched dashboard_data
Snapshot(policies, claims, guidelines) ==
    [policies |-> policies, claims |-> claims, guidelines |-> guidelines]

Guideline(section, content) ==
    [section |-> section, title |-> "title", content |-> content, policy_number |-> NoneVal]

Snapshots == {
    Snapshot({}, {}, <<>>),
    Snapshot({"COMM-2024-001", "COMM-2024-016"}, {"CLM-2024-005"},
             <<Guideline("UW-1", <<Tok("<guideline text>", 250)>>)>>)
}

(***************************************************************************)
(* Node 2: fetch_data                                                      *)
(***************************************************************************)
\* the text of the snapshot handed to the language model
_format_data_snapshot(dashboard_data, intent_payload) ==
    IF dashboard_data.policies = {} /\ dashboard_data.claims = {} THEN <<>>
    ELSE <<Tok("<data snapshot>", 600)>>

\* the analysis objects the snapshot can give for a request
_build_lightweight_analysis(dashboard_data, intent_payload) ==
    LET keys == {"context", "metrics", "dimensions", "evidence", "provenance"}
        m == [k \in {"claim_count", "total_amount"} |->
                IF k = "claim_count" THEN 2 ELSE 1000]
    IN  IF dashboard_data.policies = {} /\ dashboard_data.claims = {}
        THEN { Analysis(keys, EmptyMap, <<>>, NoProvenance) }
        ELSE { Analysis(keys, m, <<>>, NoProvenance),
               Analysis(keys, m, <<Ev("evidence", "", FALSE)>>, NoProvenance),
               Analysis(keys, m, <<Ev("image", "/api/uploads/a.jpg", TRUE),
                                   Ev("pdf", "/api/uploads/b.pdf", TRUE),
                                   Ev("video", "/api/uploads/c.mp4", TRUE)>>, NoProvenance) }

\* a trigger that asks for an evidence keyword only
_should_analyze_any_evidence(m, evidence) ==
    /\ evidence # <<>>
    /\ AnyIn(m, EvidenceWords)

_should_analyze_evidence(m, evidence) ==
    /\ evidence # <<>>
    /\ AnyIn(m, EvidenceWords)
    /\ AnyIn(m, AnalysisKeywords)

max_items == 2

\* what the loop writes into analysis_summary
ANALYSIS == "<analysis>"
EXTERNAL_NOTE == "External evidence requires upload for AI analysis."
UNSUPPORTED_NOTE == "Unsupported evidence type for auto analysis."

\* item.get("url").startswith("http")
IsHttp(url) == url \in {"https://cdn.example.com/site.jpg"}

\* the types one of _analyze_video, _analyze_image, _analyze_pdf takes
AnalyzerTypes == {"video", "image", "photo", "pdf"}

\* the loop of _auto_analyze_evidence from item i on, `analyzed` items done:
\* the evidence with its summaries filled in.  local: _resolve_local_path
\* gives a file that exists.
RECURSIVE AnalyzeFrom(_, _, _)
AnalyzeFrom(evidence, i, analyzed) ==
    IF i > Len(evidence) \/ analyzed >= max_items THEN evidence
    ELSE LET item == evidence[i]
         IN  IF item.analysis_summary # "" THEN AnalyzeFrom(evidence, i + 1, analyzed)
             ELSE IF ~item.local
             THEN AnalyzeFrom(IF IsHttp(item.url)
                              THEN [evidence EXCEPT ![i].analysis_summary = EXTERNAL_NOTE]
                              ELSE evidence,
                              i + 1, analyzed)
             ELSE AnalyzeFrom([evidence EXCEPT ![i].analysis_summary =
                                  IF item.type \in AnalyzerTypes THEN ANALYSIS
                                  ELSE UNSUPPORTED_NOTE],
                              i + 1, analyzed + 1)

_auto_analyze_evidence(evidence) == AnalyzeFrom(evidence, 1, 0)

\* the analyzer calls that loop made: the items it gave an analysis
AnalyzedCount(before, after) ==
    Cardinality({ i \in 1..Len(before) :
                    /\ before[i].analysis_summary # after[i].analysis_summary
                    /\ after[i].analysis_summary = ANALYSIS })

fetch_data_node(s, analysis_object) ==
    LET evidence == analysis_object.evidence
        analyzed == IF _should_analyze_evidence(s.message, evidence)
                    THEN _auto_analyze_evidence(evidence) ELSE evidence
    IN  [s EXCEPT
           !.data_context = _format_data_snapshot(s.dashboard_data, s.intent_payload),
           !.analysis_object = [analysis_object EXCEPT !.evidence = analyzed]]

(***************************************************************************)
(* Node 3: fetch_guidelines                                                *)
(***************************************************************************)
\* the skip test without its out-of-scope case
_is_non_substantive_greeting_only(s) == s.message.greeting

_is_non_substantive(s) == s.out_of_scope \/ s.message.greeting

\* what search_similar(message, k=5) can return
GuidelineHits == {
    <<>>,
    <<Guideline("UW-1", <<Tok("<guideline text>", 250)>>)>>,
    <<Guideline("UW-1", <<Tok("<guideline text>", 250)>>),
      Guideline("UW-2", <<Tok("<guideline text>", 400)>>)>>
}

Bullet == Tok("- [section] ", 12)

_build_citations(evidence) ==
    LET cite(item) ==
          IF item.type = "guideline" THEN <<[type |-> "guideline", url |-> ""]>>
          ELSE IF item.type = "document" THEN <<[type |-> "document", url |-> ""]>>
          ELSE IF item.url # "" THEN <<[type |-> item.type, url |-> item.url]>>
          ELSE <<>>
    IN  Flatten([i \in 1..Len(evidence) |-> cite(evidence[i])])

fetch_guidelines_node(s, guideline_results) ==
    LET lines == [i \in 1..Len(guideline_results) |->
                    <<Bullet>> \o guideline_results[i].content]
        context0 == Join(NL, lines)
        cached == s.dashboard_data.guidelines
        fallback == <<<<Tok("FULL GUIDELINE REFERENCE:", 25)>>>> \o
                    [i \in 1..Len(cached) |->
                       <<Bullet, Tok("title: ", 7)>> \o Take(cached[i].content, 200)]
        guideline_context ==
            IF Len(guideline_results) < 2 /\ cached # <<>>
            THEN context0 \o <<NL>> \o Join(NL, fallback) ELSE context0
        evidence == s.analysis_object.evidence \o
                    [i \in 1..Len(guideline_results) |->
                       [type |-> "guideline", url |-> "", local |-> FALSE,
                        analysis_summary |-> "",
                        content |-> Take(guideline_results[i].content, 300)]]
    IN  IF _is_non_substantive(s)
        THEN [s EXCEPT !.guideline_context = <<>>, !.sources = <<>>]
        ELSE [s EXCEPT
                !.guideline_context = guideline_context,
                !.sources = [i \in 1..Len(guideline_results) |->
                               guideline_results[i].section],
                !.analysis_object =
                    [@ EXCEPT !.evidence = evidence,
                              !.provenance.citations = _build_citations(evidence),
                              !.keys = @ \cup {"provenance", "evidence"}]]

(***************************************************************************)
(* Node 4: fetch_knowledge                                                 *)
(***************************************************************************)
Knowledge(type, policy_number) == [type |-> type, policy_number |-> policy_number]

\* what search_knowledge(message, k=4) can return
KnowledgeHits == {
    <<>>,
    <<Knowledge("claim", "COMM-2024-001"), Knowledge("decision", "COMM-2024-016")>>
}

fetch_knowledge_node(s, knowledge_results) ==
    LET claims_ctx == SelectSeq(knowledge_results, LAMBDA r : r.type = "claim")
        decisions_ctx == SelectSeq(knowledge_results, LAMBDA r : r.type = "decision")
        part(title, rs) ==
            <<Tok(title, 22), NL>> \o
            Join(NL, [i \in 1..Len(rs) |-> <<Tok("- <case>", 120)>>])
        parts == (IF claims_ctx # <<>>
                  THEN <<part("SIMILAR PAST CLAIMS:", claims_ctx)>> ELSE <<>>) \o
                 (IF decisions_ctx # <<>>
                  THEN <<part("SIMILAR PAST DECISIONS:", decisions_ctx)>> ELSE <<>>)
        cited == SelectSeq(decisions_ctx, LAMBDA r : r.policy_number # "")
    IN  IF _is_non_substantive(s)
        THEN [s EXCEPT !.knowledge_context = <<>>]
        ELSE [s EXCEPT
                !.knowledge_context = Join(NL, parts),
                !.sources = @ \o [i \in 1..Len(cited) |-> cited[i].policy_number]]

(***************************************************************************)
(* Node 5: check_confidence                                                *)
(***************************************************************************)
Clamp(lo, x, hi) == IF x < lo THEN lo ELSE IF x > hi THEN hi ELSE x

Max(a, b) == IF a >= b THEN a ELSE b

\* the adjustments of the scorer that apply, in the order the code makes them
ConfidenceAdjustments(intent, analysis_object, m, entities) ==
    (IF DOMAIN analysis_object.metrics # {}
       THEN <<[delta |-> 6, code |-> "metrics_present"]>> ELSE <<>>) \o
    (IF analysis_object.evidence # <<>>
       THEN <<[delta |-> 6, code |-> "evidence_present"]>> ELSE <<>>) \o
    (IF intent = "ad_hoc_query"
       THEN <<[delta |-> -6, code |-> "ad_hoc_query"]>> ELSE <<>>) \o
    (IF m.words <= 3
       THEN <<[delta |-> -14, code |-> "short_prompt"]>> ELSE <<>>) \o
    (IF ~HasEntity(entities)
       THEN <<[delta |-> -8, code |-> "no_entity"]>> ELSE <<>>) \o
    (IF AnyIn(m, BoostWords)
       THEN <<[delta |-> 4, code |-> "keyword_match"]>> ELSE <<>>)

RECURSIVE SumDeltas(_)
SumDeltas(adj) == IF adj = <<>> THEN 0 ELSE Head(adj).delta + SumDeltas(Tail(adj))

BaseConfidence == 72
MinConfidence == 45
MaxConfidence == 95

\* the estimate without its final max(45, min(95, ...))
_estimate_confidence_unclamped(intent, analysis_object, m, entities) ==
    LET adj == ConfidenceAdjustments(intent, analysis_object, m, entities)
    IN  [ confidence |-> BaseConfidence + SumDeltas(adj),
          reason_codes |-> [i \in 1..Len(adj) |-> adj[i].code] ]

_estimate_confidence(intent, analysis_object, m, entities) ==
    LET adj == ConfidenceAdjustments(intent, analysis_object, m, entities)
    IN  [ confidence |-> Clamp(MinConfidence, BaseConfidence + SumDeltas(adj), MaxConfidence),
          reason_codes |-> [i \in 1..Len(adj) |-> adj[i].code] ]

\* clarification_needed = confidence < 50
ClarifyBelow == 50

\* the threshold taken at the lower clamp instead of 50
NeedsClarification_at_floor(confidence) == confidence < MinConfidence

NeedsClarification(confidence) == confidence < ClarifyBelow

\* the evidence-without-target rule: asked for evidence, no entity resolved,
\* at most 5 words, and no evidence item with retrievable content
EvidenceWithoutTarget(s) ==
    /\ AnyIn(s.message, EVIDENCE_KEYWORDS)
    /\ ~HasEntity(s.entities)
    /\ s.message.words <= 5
    /\ \A i \in 1..Len(s.analysis_object.evidence) :
          /\ s.analysis_object.evidence[i].type = "evidence"
          /\ s.analysis_object.evidence[i].url = ""

EvidencePenalty == 25
EvidenceFloor == 30

check_confidence_node(s) ==
    IF s.out_of_scope
    THEN [s EXCEPT
            !.confidence = 0,
            !.clarification_needed = TRUE,
            !.suggested_intents = <<"Portfolio overview", "High risk policies", "Claims analysis">>,
            !.show_canvas_summary = FALSE,
            !.suggest_canvas_view = FALSE,
            !.show_evidence = FALSE,
            !.analysis_object =
                [@ EXCEPT !.keys = @ \cup {"provenance"},
                          !.provenance.confidence = 0,
                          !.provenance.confidence_reason_codes = <<"out_of_scope">>],
            !.output_type = "analysis",
            !.out_of_scope = TRUE]
    ELSE
      LET est == _estimate_confidence(s.intent_payload.intent, s.analysis_object,
                                      s.message, s.entities)
          is_greeting == s.message.greeting
          output_type == IF AnyIn(s.message, GEO_KEYWORDS) THEN "geo_map" ELSE s.output_type
          m == s.analysis_object.metrics
          canvas0 == /\ ~is_greeting
                     /\ \/ /\ HasEntity(s.entities)
                           /\ \/ Get(m, "claim_count", 0) >= 1
                              \/ Get(m, "total_amount", 0) > 0
                        \/ output_type = "geo_map"
          forced == EvidenceWithoutTarget(s)
      IN  [s EXCEPT
             !.confidence = IF forced
                            THEN Max(est.confidence - EvidencePenalty, EvidenceFloor)
                            ELSE est.confidence,
             !.clarification_needed = forced \/ NeedsClarification(est.confidence),
             !.suggested_intents =
                 IF forced
                 THEN <<"Policy evidence", "Claim evidence", "Portfolio evidence trail">>
                 ELSE IF NeedsClarification(est.confidence)
                 THEN <<"Analyze", "Understand", "Decide", "Document">>
                 ELSE <<>>,
             !.show_canvas_summary = canvas0 /\ ~forced,
             !.suggest_canvas_view = ~is_greeting /\ TextLen(s.data_context) > 300,
             !.show_evidence = AnyIn(s.message, EVIDENCE_KEYWORDS),
             !.analysis_object =
                 [@ EXCEPT !.keys = @ \cup {"provenance"},
                           !.provenance.confidence = est.confidence,
                           !.provenance.confidence_reason_codes = est.reason_codes],
             !.output_type = output_type]

\* the conditional edge after check_confidence
Branch(s) == IF s.clarification_needed THEN "clarify" ELSE "reason"

(***************************************************************************)
(* Node 6a: clarify                                                        *)
(***************************************************************************)
OUT_OF_SCOPE_TEXT == <<Tok("<I can't assist with that topic>", 207)>>
CLARIFY_TEXT == <<Tok("<I'm not entirely sure what you're looking for>", 169)>>

\* a clarify node that answers from the provider fallback
clarify_node_mock(s) == [s EXCEPT !.response_text = <<>>, !.provider = "mock"]

clarify_node(s) ==
    IF s.out_of_scope
    THEN [s EXCEPT !.response_text = OUT_OF_SCOPE_TEXT, !.provider = "guardrail"]
    ELSE [s EXCEPT !.response_text = CLARIFY_TEXT, !.provider = "intent-engine"]

(***************************************************************************)
(* Node 6b: reason                                                         *)
(***************************************************************************)
\* Priority: Bedrock, Gemini, Claude, OpenAI
_PROVIDER_CHAIN == <<"bedrock", "gemini", "claude", "openai">>

\* the available providers in reverse priority
get_all_available_reversed(usable) ==
    Reverse(SelectSeq(_PROVIDER_CHAIN, LAMBDA name : name \in usable))

\* the providers whose factory gives an instance, in chain order
get_all_available(usable) == SelectSeq(_PROVIDER_CHAIN, LAMBDA name : name \in usable)

MOCK_DEFAULT ==
    <<Tok("<I'm RiskMind. Try asking: Analyze >", 41), Tok("COMM-2024-001", 13),
      Tok("<more examples>", 207)>>
MOCK_HINT == Tok("<For AI-powered insights, set an API key>", 99)

build_mock_response(m, data_context, guideline_context) ==
    LET parts == (IF data_context # <<>> THEN <<Strip(data_context)>> ELSE <<>>) \o
                 (IF guideline_context # <<>>
                  THEN << <<Tok("\n**Relevant Guidelines:**", 25)>>,
                          Take(guideline_context, 600) >>
                  ELSE <<>>)
    IN  IF parts # <<>> THEN Join(NL, parts) \o <<MOCK_HINT>> ELSE MOCK_DEFAULT

MockOf(s) == build_mock_response(s.message, s.data_context, s.guideline_context)

\* the answers a chat-completion provider gives in this model
Answers == {
    <<>>,
    <<Tok("<answer>", 800)>>,
    <<Tok("<answer>", 120), Tok("COMM-2024-999", 13)>>
}

(***************************************************************************)
(* Node 7: validate_output                                                 *)
(***************************************************************************)
APOLOGY_TEXT == <<Tok("<I couldn't generate a meaningful response>", 79)>>
TRUNCATION_MARK == Tok("<Response truncated for brevity>", 36)
CORRECTION_NOTE == Tok("<Some entity references were corrected>", 61)
REDACTED == Tok("[REDACTED]", 10)

MinResponseLen == 10
MaxResponseLen == 5000
LongResponseLen == 500

\* re.findall(r"COMM-\d{4}-\d{3}", response): case-sensitive, no P-\d{4}
MentionedPolicies(response) ==
    { response[i].s : i \in { j \in 1..Len(response) : response[j].s \in UpperCommIds } }

\* re.findall(r"CLM-\d{4}-\d{3}", response)
MentionedClaims(response) ==
    { response[i].s : i \in { j \in 1..Len(response) : response[j].s \in UpperClmIds } }

\* a guardrail that redacts every identifier it recognises once one is unknown
RedactEveryIdentifier(response, fake_ids) ==
    [ i \in 1..Len(response) |->
        IF response[i].s \in UpperCommIds \cup UpperClmIds THEN REDACTED ELSE response[i] ]

\* response.replace(fid, "[REDACTED]") for every fid
Redact(response, fake_ids) ==
    [ i \in 1..Len(response) |->
        IF response[i].s \in fake_ids THEN REDACTED ELSE response[i] ]

validate_output_node(s) ==
    IF TextLen(Strip(s.response_text)) < MinResponseLen /\ s.show_canvas_summary
    THEN [s EXCEPT !.guardrail_passed = FALSE,
                   !.response_text = APOLOGY_TEXT,
                   !.provider = "guardrail"]
    ELSE
      LET capped == IF TextLen(s.response_text) > MaxResponseLen
                    THEN Take(s.response_text, MaxResponseLen) \o <<TRUNCATION_MARK>>
                    ELSE s.response_text
          fake_ids == (MentionedPolicies(capped) \ s.dashboard_data.policies) \cup
                      (MentionedClaims(capped) \ s.dashboard_data.claims)
          response == IF fake_ids # {}
                      THEN Redact(capped, fake_ids) \o <<CORRECTION_NOTE>>
                      ELSE capped
      IN  [s EXCEPT !.guardrail_passed = TRUE,
                    !.response_text = response,
                    !.suggest_canvas_view = @ \/ TextLen(response) > LongResponseLen]

(***************************************************************************)
(* Node 8: format_output, and the dict run_agent_pipeline returns          *)
(***************************************************************************)
PLAYGROUND_LINK == Tok("<Open Analytics Playground>", 98)

\* keys: {} is the empty dict {}
Response(keys, text, sources, provider, analysis, provenance, intent, output_type, clarification_needed, suggested_intents, suggest_canvas_view, show_canvas_summary) ==
    [ keys |-> keys, response |-> text, sources |-> sources, provider |-> provider,
      analysis_object |-> analysis, provenance |-> provenance,
      inferred_intent |-> intent, output_type |-> output_type,
      clarification_needed |-> clarification_needed,
      suggested_intents |-> suggested_intents,
      suggest_canvas_view |-> suggest_canvas_view,
      show_canvas_summary |-> show_canvas_summary ]

ResponseKeys == {"response", "sources", "provider", "analysis_object", "provenance",
                 "inferred_intent", "output_type", "clarification_needed",
                 "suggested_intents", "suggest_canvas_view", "show_canvas_summary"}

\* an optional value: None, or the value
None(dflt) == [none |-> TRUE, value |-> dflt]
Some(v) == [none |-> FALSE, value |-> v]

EmptyResponse ==
    Response({}, <<>>, <<>>, "", None(EmptyAnalysis), None(NoProvenance), NoneVal, "",
             FALSE, <<>>, FALSE, FALSE)

format_output_node(s) ==
    LET show_canvas == s.show_canvas_summary
        show_evidence == s.show_evidence
        stripped == IF ~show_evidence /\ s.analysis_object.keys # {}
                    THEN [s.analysis_object EXCEPT
                            !.keys = @ \ {"evidence", "provenance"},
                            !.evidence = <<>>,
                            !.provenance = NoProvenance]
                    ELSE s.analysis_object
        is_trivial == ~show_canvas /\ ~s.suggest_canvas_view
        analysis_object == IF is_trivial THEN EmptyAnalysis ELSE stripped
        response_text == IF s.intent_payload.intent = "analytics_playground"
                         THEN s.response_text \o <<PLAYGROUND_LINK>>
                         ELSE s.response_text
    IN  [s EXCEPT !.final_response =
           Response(ResponseKeys, response_text,
                    IF is_trivial THEN <<>> ELSE s.sources,
                    s.provider,
                    IF analysis_object.keys # {} THEN Some(analysis_object)
                    ELSE None(EmptyAnalysis),
                    IF show_evidence /\ "provenance" \in analysis_object.keys
                    THEN Some(analysis_object.provenance) ELSE None(NoProvenance),
                    s.canonical_intent, s.output_type, s.clarification_needed,
                    s.suggested_intents, s.suggest_canvas_view, s.show_canvas_summary)]

\* a boundary without the except clause
CaughtNothing(exc) == FALSE

\* the exceptions `except Exception` catches at the orchestrator boundary
CaughtAtBoundary(exc) == exc \in {"Exception"}

ERROR_TEXT(exc) == <<Tok("Agent pipeline error: ", 22), Tok("<str(e)>", 40)>>

ErrorResponse(exc) ==
    Response(ResponseKeys, ERROR_TEXT(exc), <<>>, "error", None(EmptyAnalysis),
             None(NoProvenance), NoneVal, "analysis", FALSE, <<>>, FALSE, FALSE)

initial_state(message, dashboard_data, history) ==
    [ message |-> message, history |-> history, dashboard_data |-> dashboard_data,
      intent_payload |-> [ intent |-> "",
                           entities |-> [policy_number |-> NoneVal,
                                         claim_number |-> NoneVal, entity |-> ""],
                           canonical_intent |-> "", output_type |-> "" ],
      entities |-> [policy_number |-> NoneVal, claim_number |-> NoneVal, entity |-> ""],
      canonical_intent |-> "Understand", output_type |-> "analysis",
      out_of_scope |-> FALSE, data_context |-> <<>>,
      analysis_object |-> EmptyAnalysis, guideline_context |-> <<>>,
      knowledge_context |-> <<>>, sources |-> <<>>, confidence |-> 0,
      clarification_needed |-> FALSE, suggested_intents |-> <<>>,
      suggest_canvas_view |-> FALSE, show_canvas_summary |-> TRUE,
      show_evidence |-> FALSE, response_text |-> <<>>, provider |-> "mock",
      guardrail_passed |-> TRUE, final_response |-> EmptyResponse ]

(***************************************************************************)
(* The ad-hoc query resolver: SQL texts.  A SQL text is the sequence of    *)
(* its tokens as spelled; white space separates tokens and is not kept.    *)
(***************************************************************************)
\* str.lower() on the tokens used here
SqlLower(w) ==
    CASE w = "SELECT" -> "select"
      [] w = "FROM" -> "from"
      [] w = "JOIN" -> "join"
      [] w = "DELETE" -> "delete"
      [] w = "DROP" -> "drop"
      [] w = "Policies" -> "policies"
      [] OTHER -> w

\* the tokens whose lower case holds one of insert, update, delete, drop,
\* alter, pragma, attach as a substring
HoldsForbiddenWord(w) == SqlLower(w) \in {"delete", "drop", "updated_at"}

\* the tokens that start with [a-zA-Z_][a-zA-Z0-9_]*
StartsAsIdentifier(w) ==
    w \in {"claims", "policies", "Policies", "decisions", "guidelines", "documents",
           "users", "sqlite_master", "secrets", "month", "risk_level", "claim_date",
           "effective_date", "updated_at", "industry_type"}

\* the code-fence tokens, three backquotes with or without "sql"
FENCES == {"<fence>", "<fence>sql"}

\* the keys of JOIN_GRAPH
JOIN_GRAPH_keys == {"policies", "claims", "decisions", "guidelines", "documents", "users"}

\* the first position from i on of a token of t that is, lower-cased, one of
\* `words`; 0 when there is none
RECURSIVE FirstAt(_, _, _)
FirstAt(t, words, i) ==
    IF i > Len(t) THEN 0
    ELSE IF SqlLower(t[i]) \in words THEN i
    ELSE FirstAt(t, words, i + 1)

\* str.strip(";")
RECURSIVE LStripSemi(_)
LStripSemi(t) == IF t # <<>> /\ Head(t) = ";" THEN LStripSemi(Tail(t)) ELSE t

StripSemi(t) == Reverse(LStripSemi(Reverse(LStripSemi(t))))

\* list(dict.fromkeys(xs))
RECURSIVE Dedup(_)
Dedup(xs) ==
    IF xs = <<>> THEN <<>>
    ELSE LET rest == Dedup(SubSeq(xs, 1, Len(xs) - 1))
             x == xs[Len(xs)]
         IN  IF x \in Range(rest) THEN rest ELSE Append(rest, x)

\* the names after `from` and after `join`, lower-cased
_extract_tables(sql) ==
    Dedup([ k \in 1..Len(SelectSeq([i \in 1..Len(sql) |-> i],
                   LAMBDA i : /\ i > 1
                              /\ SqlLower(sql[i - 1]) \in {"from", "join"}
                              /\ StartsAsIdentifier(sql[i]))) |->
            SqlLower(sql[SelectSeq([i \in 1..Len(sql) |-> i],
                   LAMBDA i : /\ i > 1
                              /\ SqlLower(sql[i - 1]) \in {"from", "join"}
                              /\ StartsAsIdentifier(sql[i]))[k]]) ])

_clean_sql(raw) ==
    IF raw = <<>> THEN <<>>
    ELSE LET cleaned == IF Range(raw) \cap FENCES # {}
                        THEN SelectSeq(raw, LAMBDA w : w \notin FENCES)
                        ELSE raw
             at == FirstAt(cleaned, {"select"}, 1)
             sql == SubSeq(cleaned, at, Len(cleaned))
             semi == FirstAt(sql, {";"}, 1)
         IN  IF at = 0 THEN cleaned
             ELSE IF semi > 0 THEN SubSeq(sql, 1, semi)
             ELSE sql

Verdict(ok, error, tables) == [ok |-> ok, error |-> error, tables |-> tables]

_validate_sql(sql) ==
    LET sql_clean == StripSemi(sql)
        tables == _extract_tables(sql_clean)
    IN  IF sql_clean = <<>> \/ SqlLower(Head(sql_clean)) # "select"
        THEN Verdict(FALSE, "Only SELECT statements are allowed.", <<>>)
        ELSE IF \E i \in 1..Len(sql_clean) : HoldsForbiddenWord(sql_clean[i])
        THEN Verdict(FALSE, "Unsafe SQL detected.", <<>>)
        ELSE IF \E i \in 1..Len(tables) : tables[i] \notin JOIN_GRAPH_keys
        THEN Verdict(FALSE, "Disallowed tables", tables)
        ELSE Verdict(TRUE, "", tables)

\* no ad-hoc query has been asked
\* no call of match_query is being looked at
NoLookup == [message |-> <<>>, library |-> <<>>, result |-> "unset"]

\* the executions of _generate_sql_llm that share the event loop; each has
\* not started ("new"), sleeps between two Gemini attempts, awaits OpenAI,
\* has returned the statement it read in the cache ("cached"), or has returned
\* otherwise ("done", with the statement a provider generated for it)
MaxExecutions == 2

Executions == 1..MaxExecutions

Flight(at, key, attempt_no, sql) == [at |-> at, key |-> key, retry |-> attempt_no, sql |-> sql]

NoFlights == [e \in Executions |-> Flight("new", "", 0, <<>>)]

ResolverIdle ==
    /\ request = [text |-> "", key |-> ""]
    /\ rpc = "idle"
    /\ retry = 0
    /\ env = [google |-> FALSE, openai |-> FALSE, cube |-> FALSE]
    /\ _sql_cache = <<>>
    /\ sqlCalls = <<>>
    /\ executed = <<>>
    /\ answers = <<>>
    /\ flights = NoFlights
    /\ lookup = NoLookup

(***************************************************************************)
(* run_agent_pipeline: one run of the graph                                *)
(***************************************************************************)
Running == [kind |-> "running", value |-> EmptyResponse]
Returned(r) == [kind |-> "returned", value |-> r]
Propagated == [kind |-> "raised", value |-> EmptyResponse]

Init ==
    /\ \E message \in Messages, dashboard_data \in Snapshots, history \in Histories :
          state = initial_state(message, dashboard_data, history)
    /\ pc = "route_intent"
    /\ trace = <<>>
    /\ providers = <<>>
    /\ attempt = 0
    /\ llmCalls = <<>>
    /\ searches = {}
    /\ analyzerCalls = 0
    /\ outcome = Running
    /\ ResolverIdle

\* a node has completed and the graph moves to the next one
Step(node, next, s) ==
    /\ state' = s
    /\ trace' = Append(trace, node)
    /\ pc' = next

\* an exception leaves the graph: run_agent_pipeline's except clause
Abort(exc) ==
    /\ pc' = "END"
    /\ outcome' = IF CaughtAtBoundary(exc) THEN Returned(ErrorResponse(exc))
                  ELSE Propagated
    /\ UNCHANGED <<state, trace, providers, attempt, llmCalls, analyzerCalls>>

route_intent_node(s) ==
    LET payload == _resolve_entity_from_history(s.history, _route_intent(s.message))
    IN  [s EXCEPT !.intent_payload = payload,
                  !.entities = payload.entities,
                  !.canonical_intent = payload.canonical_intent,
                  !.output_type = payload.output_type,
                  !.out_of_scope = _is_out_of_scope(s.message)]

RouteIntent ==
    /\ pc = "route_intent"
    /\ Step("route_intent", "fetch_data", route_intent_node(state))
    /\ UNCHANGED <<providers, attempt, llmCalls, searches, analyzerCalls, outcome>>
    /\ UNCHANGED resolverVars

FetchData ==
    /\ pc = "fetch_data"
    /\ \E analysis_object \in
            _build_lightweight_analysis(state.dashboard_data, state.intent_payload) :
          /\ Step("fetch_data", "fetch_guidelines", fetch_data_node(state, analysis_object))
          /\ analyzerCalls' = analyzerCalls +
                AnalyzedCount(analysis_object.evidence, state'.analysis_object.evidence)
    /\ UNCHANGED <<providers, attempt, llmCalls, searches, outcome>>
    /\ UNCHANGED resolverVars

FetchGuidelines ==
    /\ pc = "fetch_guidelines"
    /\ \E guideline_results \in GuidelineHits :
          Step("fetch_guidelines", "fetch_knowledge",
               fetch_guidelines_node(state, guideline_results))
    /\ searches' = IF _is_non_substantive(state) THEN searches
                   ELSE searches \cup {"guidelines"}
    /\ UNCHANGED <<providers, attempt, llmCalls, analyzerCalls, outcome>>
    /\ UNCHANGED resolverVars

\* search_similar raises: except Exception: pass
FetchGuidelinesSearchFails ==
    /\ pc = "fetch_guidelines"
    /\ ~_is_non_substantive(state)
    /\ Step("fetch_guidelines", "fetch_knowledge", fetch_guidelines_node(state, <<>>))
    /\ searches' = searches \cup {"guidelines"}
    /\ UNCHANGED <<providers, attempt, llmCalls, analyzerCalls, outcome>>
    /\ UNCHANGED resolverVars

FetchKnowledge ==
    /\ pc = "fetch_knowledge"
    /\ \E knowledge_results \in KnowledgeHits :
          Step("fetch_knowledge", "check_confidence",
               fetch_knowledge_node(state, knowledge_results))
    /\ searches' = IF _is_non_substantive(state) THEN searches
                   ELSE searches \cup {"knowledge"}
    /\ UNCHANGED <<providers, attempt, llmCalls, analyzerCalls, outcome>>
    /\ UNCHANGED resolverVars

\* search_knowledge raises outside its own try (get_knowledge_collection(),
\* collection.count()); the node has no handler
FetchKnowledgeRaises ==
    /\ pc = "fetch_knowledge"
    /\ ~_is_non_substantive(state)
    /\ searches' = searches \cup {"knowledge"}
    /\ Abort("Exception")
    /\ UNCHANGED resolverVars

CheckConfidence ==
    /\ pc = "check_confidence"
    /\ Step("check_confidence", Branch(check_confidence_node(state)),
            check_confidence_node(state))
    /\ UNCHANGED <<providers, attempt, llmCalls, searches, analyzerCalls, outcome>>
    /\ UNCHANGED resolverVars

Clarify ==
    /\ pc = "clarify"
    /\ Step("clarify", "validate_output", clarify_node(state))
    /\ UNCHANGED <<providers, attempt, llmCalls, searches, analyzerCalls, outcome>>
    /\ UNCHANGED resolverVars

\* reason_node returns
ReasonReturns(text, name) ==
    Step("reason", "validate_output",
         [state EXCEPT !.response_text = text, !.provider = name])

\* reason_node up to its first await
ReasonStart ==
    /\ pc = "reason"
    /\ \E usable \in SUBSET Range(_PROVIDER_CHAIN) :
          /\ providers' = get_all_available(usable)
          /\ IF providers' = <<>>
             THEN ReasonReturns(MockOf(state), "mock") /\ UNCHANGED attempt
             ELSE /\ attempt' = 1
                  /\ pc' = "reason_await"
                  /\ UNCHANGED <<state, trace>>
    /\ UNCHANGED <<llmCalls, searches, analyzerCalls, outcome>>
    /\ UNCHANGED resolverVars

\* await llm.ainvoke(messages) returns a result
ProviderAnswers ==
    /\ pc = "reason_await"
    /\ \E content \in Answers : ReasonReturns(content, providers[attempt])
    /\ llmCalls' = Append(llmCalls, [name |-> providers[attempt], result |-> "ok"])
    /\ UNCHANGED <<providers, attempt, searches, analyzerCalls, outcome>>
    /\ UNCHANGED resolverVars

\* await llm.ainvoke(messages) raises: continue with the next provider,
\* and after the last one fall back to the mock
ProviderRaises ==
    /\ pc = "reason_await"
    /\ llmCalls' = Append(llmCalls, [name |-> providers[attempt], result |-> "raised"])
    /\ IF attempt = Len(providers)
       THEN ReasonReturns(MockOf(state), "mock") /\ UNCHANGED attempt
       ELSE /\ attempt' = attempt + 1
            /\ UNCHANGED <<state, trace, pc>>
    /\ UNCHANGED <<providers, searches, analyzerCalls, outcome>>
    /\ UNCHANGED resolverVars

\* await llm.ainvoke(messages) never returns: the call carries no timeout
ProviderHangs ==
    /\ pc = "reason_await"
    /\ pc' = "reason_hung"
    /\ llmCalls' = Append(llmCalls, [name |-> providers[attempt], result |-> "pending"])
    /\ UNCHANGED <<state, trace, providers, attempt, searches, analyzerCalls, outcome>>
    /\ UNCHANGED resolverVars

ValidateOutput ==
    /\ pc = "validate_output"
    /\ Step("validate_output", "format_output", validate_output_node(state))
    /\ UNCHANGED <<providers, attempt, llmCalls, searches, analyzerCalls, outcome>>
    /\ UNCHANGED resolverVars

\* format_output, END, and return result.get("final_response", {})
FormatOutput ==
    /\ pc = "format_output"
    /\ Step("format_output", "END", format_output_node(state))
    /\ outcome' = Returned(state'.final_response)
    /\ UNCHANGED <<providers, attempt, llmCalls, searches, analyzerCalls>>
    /\ UNCHANGED resolverVars

Next ==
    \/ RouteIntent
    \/ FetchData
    \/ FetchGuidelines
    \/ FetchGuidelinesSearchFails
    \/ FetchKnowledge
    \/ FetchKnowledgeRaises
    \/ CheckConfidence
    \/ Clarify
    \/ ReasonStart
    \/ ProviderAnswers
    \/ ProviderRaises
    \/ ProviderHangs
    \/ ValidateOutput
    \/ FormatOutput

Spec == Init /\ [][Next]_vars

\* the event loop runs every step that is ready
FairSpec == Spec /\ WF_vars(Next)


\* what a run has done so far
Visited(node) == node \in Range(trace)

Ended == pc = "END"

\* the two complete stage sequences of the graph
StagesToClarify ==
    <<"route_intent", "fetch_data", "fetch_guidelines", "fetch_knowledge",
      "check_confidence", "clarify", "validate_output", "format_output">>

StagesToReason ==
    <<"route_intent", "fetch_data", "fetch_guidelines", "fetch_knowledge",
      "check_confidence", "reason", "validate_output", "format_output">>

(***************************************************************************)
(* The output guardrail on its own: validate_output and format_output run  *)
(* on the draft a provider has just returned                               *)
(***************************************************************************)
MaxDraftLen == 2

DraftTokens ==
    { Tok("<prose>", 40), Tok("<long prose>", 4990), SP } \cup
    { Tok(id, 13) : id \in {"COMM-2024-001", "COMM-2024-999", "comm-2024-999"} } \cup
    { Tok(id, 6) : id \in ShortPolicyIds } \cup
    { Tok(id, 12) : id \in UpperClmIds \cup LowerClmIds }

\* the drafts of at most MaxDraftLen tokens
Drafts == UNION { [1..n -> DraftTokens] : n \in 0..MaxDraftLen }

GuardMessages == { m \in Messages : m.text \in {"Analyze COMM-2024-001", "claims by type"} }

GuardSnapshots ==
    { Snapshot(policies, claims, <<>>) :
        policies \in SUBSET {"COMM-2024-001", "COMM-2024-016"},
        claims \in SUBSET {"CLM-2024-005"} }

\* the state reason_node leaves when a provider answers `draft`
DraftedState(message, dashboard_data, analysis_object, draft) ==
    LET s1 == route_intent_node(initial_state(message, dashboard_data, <<>>))
        s2 == fetch_data_node(s1, analysis_object)
        s3 == fetch_guidelines_node(s2, <<>>)
        s4 == fetch_knowledge_node(s3, <<>>)
        s5 == check_confidence_node(s4)
    IN  [s5 EXCEPT !.response_text = draft, !.provider = "bedrock"]

InitGuard ==
    /\ \E message \in GuardMessages, dashboard_data \in GuardSnapshots, draft \in Drafts :
          \E analysis_object \in
                _build_lightweight_analysis(dashboard_data, _route_intent(message)) :
             /\ state = DraftedState(message, dashboard_data, analysis_object, draft)
             /\ Branch(state) = "reason"
    /\ pc = "validate_output"
    /\ trace = SubSeq(StagesToReason, 1, 6)
    /\ providers = <<"bedrock">>
    /\ attempt = 1
    /\ llmCalls = <<[name |-> "bedrock", result |-> "ok"]>>
    /\ searches = {"guidelines", "knowledge"}
    /\ analyzerCalls = 0
    /\ outcome = Running
    /\ ResolverIdle

NextGuard == ValidateOutput \/ FormatOutput

SpecGuard == InitGuard /\ [][NextGuard]_vars

(***************************************************************************)
(* The router on its own: route_intent on conversations of up to MaxTurns  *)
(* turns                                                                   *)
(***************************************************************************)
MaxTurns == 7

\* what a turn of the history can hold: nothing, a policy, a claim, or both
\* (in lower case)
TurnKinds ==
    { Turn("", ""), Turn("COMM-2024-016", ""), Turn("", "CLM-2024-999"),
      Turn("comm-2024-999", "clm-2024-005") }

Conversations == UNION { [1..n -> TurnKinds] : n \in 0..MaxTurns }

RouteMessages ==
    { m \in Messages : m.text \in {"show evidence", "claims by type",
                                   "Analyze COMM-2024-001",
                                   "summarize evidence for clm-2024-005"} }

InitRoute ==
    /\ \E message \in RouteMessages, history \in Conversations :
          state = initial_state(message, Snapshot({}, {}, <<>>), history)
    /\ pc = "route_intent"
    /\ trace = <<>>
    /\ providers = <<>>
    /\ attempt = 0
    /\ llmCalls = <<>>
    /\ searches = {}
    /\ analyzerCalls = 0
    /\ outcome = Running
    /\ ResolverIdle

NextRoute == RouteIntent

SpecRoute == InitRoute /\ [][NextRoute]_vars

(***************************************************************************)
(* The evidence analysis on its own: fetch_data_node on evidence lists of  *)
(* up to MaxEvidence items                                                 *)
(***************************************************************************)
MaxEvidence == 3

\* the items of an evidence list: a stored image, a stored video, a stored
\* pdf that already has a summary, a stored item of another type, and an
\* image held on another host
EvidenceItems ==
    { Ev("image", "/api/uploads/a.jpg", TRUE),
      Ev("video", "/api/uploads/c.mp4", TRUE),
      [Ev("pdf", "/api/uploads/b.pdf", TRUE) EXCEPT !.analysis_summary = "<earlier analysis>"],
      Ev("evidence", "/api/uploads/notes.txt", TRUE),
      Ev("image", "https://cdn.example.com/site.jpg", FALSE) }

EvidenceLists == UNION { [1..n -> EvidenceItems] : n \in 0..MaxEvidence }

\* fetch_data_node holds the analysis object it has just built
InitEvidence ==
    /\ \E message \in Messages, evidence \in EvidenceLists :
          LET s == route_intent_node(initial_state(message, Snapshot({}, {}, <<>>), <<>>))
          IN  state = [s EXCEPT !.analysis_object =
                          Analysis({"context", "metrics", "dimensions", "evidence", "provenance"},
                                   EmptyMap, evidence, NoProvenance)]
    /\ pc = "fetch_data"
    /\ trace = <<"route_intent">>
    /\ providers = <<>>
    /\ attempt = 0
    /\ llmCalls = <<>>
    /\ searches = {}
    /\ analyzerCalls = 0
    /\ outcome = Running
    /\ ResolverIdle

\* the rest of fetch_data_node: the trigger test and the analysis loop
AnalyzeEvidence ==
    /\ pc = "fetch_data"
    /\ Step("fetch_data", "fetch_guidelines", fetch_data_node(state, state.analysis_object))
    /\ analyzerCalls' = analyzerCalls +
          AnalyzedCount(state.analysis_object.evidence, state'.analysis_object.evidence)
    /\ UNCHANGED <<providers, attempt, llmCalls, searches, outcome>>
    /\ UNCHANGED resolverVars

NextEvidence == AnalyzeEvidence

SpecEvidence == InitEvidence /\ [][NextEvidence]_vars

(***************************************************************************)
(* run_intent_pipeline on ad-hoc queries: the data cube, the resolver      *)
(* tiers of _generate_sql_llm, validation and execution                    *)
(***************************************************************************)
MaxRequests == 2

DASHBOARD_TREND ==
    <<"SELECT", "<month, total_amount, claim_count>", "FROM", "claims",
      "GROUP", "BY", "month", "ORDER", "BY", "month">>
SIMPLE_CLAIMS ==
    <<"SELECT", "*", "FROM", "claims", "ORDER", "BY", "claim_date", "DESC", "LIMIT", "50">>
SIMPLE_POLICIES ==
    <<"SELECT", "*", "FROM", "policies", "ORDER", "BY", "effective_date", "DESC",
      "LIMIT", "50">>
LIBRARY_CL_009 ==
    <<"SELECT", "<month, claim_count, total_amount>", "FROM", "claims", "WHERE",
      "<claim_date in the last 12 months>", "GROUP", "BY", "month", "ORDER", "BY",
      "month", "ASC">>
LIBRARY_DE_002 ==
    <<"SELECT", "<decision and policy columns>", "FROM", "decisions", "d", "JOIN",
      "policies", "p", "ON", "<p.policy_number = d.policy_number>", "WHERE",
      "<accepted>", "ORDER", "BY", "<d.created_at>", "DESC">>
LIBRARY_PF_009 == <<"SELECT", "<ROUND(AVG(premium), 2)>", "AS", "avg_premium", "FROM", "policies">>
\* an entity lookup: its statement has the slot :policy_number
LIBRARY_EN_001 ==
    <<"SELECT", "<policy columns, claim_count, total_claims, loss_ratio_pct>", "FROM",
      "policies", "p", "LEFT", "JOIN", "claims", "c", "ON", "<p.id = c.policy_id>",
      "WHERE", "p.policy_number", "=", ":policy_number", "GROUP", "BY", "p.id">>

\* Ad-hoc messages.  key: message.lower().strip(); filter: whether the
\* lower-cased message holds " for ", "where" or a digit; cube: whether a rule
\* of DataCube.try_query matches; dashboard, simple, library: what
\* _try_dashboard_query_pattern, _try_simple_query_pattern and get_library_sql
\* return for the message (<<>> for None).
Ask(text, key, filter, cube, dashboard, simple, library) ==
    [text |-> text, key |-> key, filter |-> filter, cube |-> cube,
     dashboard |-> dashboard, simple |-> simple, library |-> library]

AdHocMessages == {
    Ask("show claims trend", "show claims trend", FALSE, TRUE,
        DASHBOARD_TREND, SIMPLE_CLAIMS, LIBRARY_CL_009),
    Ask("list all policies", "list all policies", FALSE, FALSE,
        <<>>, SIMPLE_POLICIES, LIBRARY_DE_002),
    Ask("list claims where amount > 50000", "list claims where amount > 50000", TRUE, FALSE,
        <<>>, SIMPLE_CLAIMS, <<>>),
    Ask("average premium by broker", "average premium by broker", FALSE, FALSE,
        <<>>, <<>>, LIBRARY_PF_009),
    Ask("compare loss across regions", "compare loss across regions", FALSE, FALSE,
        <<>>, <<>>, <<>>),
    Ask("Compare Loss Across Regions ", "compare loss across regions", FALSE, FALSE,
        <<>>, <<>>, <<>>),
    Ask("count documents by uploader", "count documents by uploader", FALSE, FALSE,
        <<>>, <<>>, <<>>),
    Ask("tell me about policy trend", "tell me about policy trend", FALSE, FALSE,
        <<>>, <<>>, LIBRARY_EN_001)
}

\* the statements a SQL-generation provider writes in this model
Statements == {
    <<"SELECT", "*", "FROM", "claims">>,
    <<"SELECT", "*", "FROM", "claims", "JOIN", "documents", "ON", "<condition>">>,
    <<"SELECT", "*", "FROM", "policies", ",", "sqlite_master">>,
    <<"SELECT", "*", "FROM", "\"sqlite_master\"">>,
    <<"SELECT", "*", "FROM", "sqlite_master">>,
    <<"SELECT", "*", "FROM", "claims", "JOIN", "secrets", "ON", "<condition>">>,
    <<"select", "updated_at", "from", "Policies">>,
    <<"DELETE", "FROM", "claims">>,
    <<"SELECT", "*", "FROM", "claims", ";", "DROP", "TABLE", "claims">>
}

\* the replies: empty, or a statement bare, fenced, or after a sentence
Replies ==
    {<<>>} \cup Statements \cup
    { <<"<fence>sql">> \o s \o <<"<fence>">> : s \in Statements } \cup
    { <<"Here", "is", "the", "query:">> \o s :
        s \in { x \in Statements : ";" \in Range(x) \/ Head(x) = "DELETE" } }

\* dict lookup and dict assignment on the insertion-ordered cache
CacheHas(cache, key) == \E i \in 1..Len(cache) : cache[i].key = key
CacheGet(cache, key) == cache[CHOOSE i \in 1..Len(cache) : cache[i].key = key].sql
CachePut(cache, key, sql) ==
    IF CacheHas(cache, key)
    THEN [ i \in 1..Len(cache) |->
             IF cache[i].key = key THEN [key |-> key, sql |-> sql] ELSE cache[i] ]
    ELSE Append(cache, [key |-> key, sql |-> sql])

_cache_max_size == 100

\* a cache that never drops its oldest entry
CachedWithoutEviction(cache, key, sql) ==
    IF sql = <<>> THEN cache ELSE CachePut(cache, key, sql)

\* a resolver that stores no reply
CachedNothing(cache, key, sql) == cache

\* the cache after a provider's cleaned reply: pop the oldest when full
Cached(cache, key, sql) ==
    IF sql = <<>> THEN cache
    ELSE CachePut(IF Len(cache) >= _cache_max_size THEN Tail(cache) ELSE cache, key, sql)

\* the tiers with the curated library consulted first
ResolvedLibraryFirst(message, cache) ==
    IF message.library # <<>> THEN message.library
    ELSE IF message.dashboard # <<>> THEN message.dashboard
    ELSE IF message.simple # <<>> THEN message.simple
    ELSE IF CacheHas(cache, message.key) THEN CacheGet(cache, message.key)
    ELSE <<>>

\* tiers 0, 0b and 1 of _generate_sql_llm, then the cache; <<>> when none answers
ResolvedWithoutProvider(message, cache) ==
    IF message.dashboard # <<>> THEN message.dashboard
    ELSE IF message.simple # <<>> THEN message.simple
    ELSE IF message.library # <<>> THEN message.library
    ELSE IF CacheHas(cache, message.key) THEN CacheGet(cache, message.key)
    ELSE <<>>

\* what run_intent_pipeline returns; confidence -1: the key is absent
Answer(kind, text, confidence, reason_codes, tables, sql) ==
    [kind |-> kind, text |-> text, confidence |-> confidence,
     reason_codes |-> reason_codes, tables |-> tables, sql |-> sql]

CubeAnswer ==
    Answer("cube", "Generated from cached data cube.", -1, <<>>, <<"data_cube">>, <<>>)

\* a resolver that reports the missing statement as a failure
NoSqlFailure ==
    Answer("error", "SQL generation failed", -1, <<"error">>, <<>>, <<>>)

NoSqlAnswer ==
    Answer("no_sql", "Unable to generate SQL without an AI provider.", 52,
           <<"no_sql", "no_provider">>, <<>>, <<>>)

RejectedAnswer(verdict, sql) ==
    Answer("rejected", verdict.error, 56, <<"sql_rejected">>, verdict.tables, sql)

PlanAnswer(verdict, sql) == Answer("plan", "", -1, <<>>, verdict.tables, sql)

\* no agent run is in progress
AgentIdle ==
    /\ state = initial_state(CHOOSE m \in Messages : m.text = "hello", Snapshot({}, {}, <<>>), <<>>)
    /\ pc = "idle"
    /\ trace = <<>>
    /\ providers = <<>>
    /\ attempt = 0
    /\ llmCalls = <<>>
    /\ searches = {}
    /\ analyzerCalls = 0
    /\ outcome = Running

InitSql ==
    /\ AgentIdle
    /\ request = [text |-> "", key |-> ""]
    /\ rpc = "idle"
    /\ retry = 0
    /\ env \in [google : BOOLEAN, openai : BOOLEAN, cube : BOOLEAN]
    /\ _sql_cache = <<>>
    /\ sqlCalls = <<>>
    /\ executed = <<>>
    /\ answers = <<>>
    /\ flights = NoFlights
    /\ lookup = NoLookup

\* run_intent_pipeline from the value _generate_sql_llm returned: no SQL,
\* a rejected statement, or a plan that _execute_plan hands to db.execute
Finish(sql) ==
    LET verdict == _validate_sql(sql)
    IN  /\ rpc' = "idle"
        /\ retry' = 0
        /\ IF sql = <<>>
           THEN /\ answers' = Append(answers, NoSqlAnswer)
                /\ UNCHANGED executed
           ELSE IF ~verdict.ok
           THEN /\ answers' = Append(answers, RejectedAnswer(verdict, sql))
                /\ UNCHANGED executed
           ELSE /\ answers' = Append(answers, PlanAnswer(verdict, sql))
                /\ executed' = Append(executed, sql)

\* run_intent_pipeline up to the first provider call
AskAdHoc ==
    /\ rpc = "idle"
    /\ Len(answers) < MaxRequests
    /\ \E message \in AdHocMessages :
          LET sql == ResolvedWithoutProvider(message, _sql_cache)
          IN  /\ request' = [text |-> message.text, key |-> message.key]
              /\ IF env.cube /\ message.cube
                 THEN /\ answers' = Append(answers, CubeAnswer)
                      /\ UNCHANGED <<rpc, retry, executed>>
                 ELSE IF sql # <<>> THEN Finish(sql)
                 ELSE IF env.google
                 THEN /\ rpc' = "gemini"
                      /\ retry' = 0
                      /\ UNCHANGED <<executed, answers>>
                 ELSE IF env.openai
                 THEN /\ rpc' = "openai"
                      /\ UNCHANGED <<retry, executed, answers>>
                 ELSE Finish(<<>>)
    /\ UNCHANGED <<env, _sql_cache, sqlCalls, flights>>
    /\ UNCHANGED <<agentVars, lookup>>

\* a provider returned `raw`: clean it, cache it, go on with it
ProviderWrote(name, raw) ==
    LET sql == _clean_sql(raw)
    IN  /\ _sql_cache' = Cached(_sql_cache, request.key, sql)
        /\ sqlCalls' = Append(sqlCalls, [name |-> name, result |-> "ok"])
        /\ Finish(sql)
        /\ UNCHANGED <<request, env, flights>>
        /\ UNCHANGED <<agentVars, lookup>>

\* a provider call raised and the resolver gives up: return None
ProviderGaveUp(name, result) ==
    /\ sqlCalls' = Append(sqlCalls, [name |-> name, result |-> result])
    /\ Finish(<<>>)
    /\ UNCHANGED <<request, env, _sql_cache, flights>>
    /\ UNCHANGED <<agentVars, lookup>>

GeminiAnswers ==
    /\ rpc = "gemini"
    /\ \E raw \in Replies : ProviderWrote("gemini", raw)

max_retries == 3

\* a retry loop that allows one attempt more than max_retries
GeminiRateLimitedOnceMore ==
    /\ rpc = "gemini"
    /\ IF retry < max_retries
       THEN /\ retry' = retry + 1
            /\ sqlCalls' = Append(sqlCalls, [name |-> "gemini", result |-> "rate_limited"])
            /\ UNCHANGED <<request, rpc, env, _sql_cache, executed, answers, flights>>
            /\ UNCHANGED <<agentVars, lookup>>
       ELSE ProviderGaveUp("gemini", "rate_limited")

\* a 429 / quota / rate error: sleep and retry while attempts remain
GeminiRateLimited ==
    /\ rpc = "gemini"
    /\ IF retry < max_retries - 1
       THEN /\ retry' = retry + 1
            /\ sqlCalls' = Append(sqlCalls, [name |-> "gemini", result |-> "rate_limited"])
            /\ UNCHANGED <<request, rpc, env, _sql_cache, executed, answers, flights>>
            /\ UNCHANGED <<agentVars, lookup>>
       ELSE ProviderGaveUp("gemini", "rate_limited")

\* any other error: no retry, and no fall-through to OpenAI
GeminiFails ==
    /\ rpc = "gemini"
    /\ ProviderGaveUp("gemini", "raised")

OpenAIAnswers ==
    /\ rpc = "openai"
    /\ \E raw \in Replies : ProviderWrote("openai", raw)

OpenAIFails ==
    /\ rpc = "openai"
    /\ ProviderGaveUp("openai", "raised")

NextSql ==
    \/ AskAdHoc
    \/ GeminiAnswers
    \/ GeminiRateLimited
    \/ GeminiFails
    \/ OpenAIAnswers
    \/ OpenAIFails

SpecSql == InitSql /\ [][NextSql]_vars

(***************************************************************************)
(* The generation cache under concurrent executions.  chat.py awaits       *)
(* run_intent_pipeline on the event loop, so executions of                 *)
(* _generate_sql_llm interleave at its await points only: the sleep        *)
(* between two Gemini attempts and the OpenAI call.  model.generate_content *)
(* is a blocking call: nothing else runs between the cache lookup and the  *)
(* first Gemini attempt, nor between a reply and its put.                  *)
(***************************************************************************)
\* the cache after n earlier generations, oldest first; the executions start
\* on a cache that is full or one entry short of it
EarlierEntry(i) ==
    [key |-> "earlier question " \o ToString(i), sql |-> <<"SELECT", "*", "FROM", "claims">>]

EarlierEntries == { EarlierEntry(i) : i \in 1.._cache_max_size }

EarlierCache(n) == [ i \in 1..n |-> EarlierEntry(i) ]

\* the replies a provider gives here: none, or a fenced statement
CacheReplies ==
    { <<>>,
      <<"<fence>sql", "SELECT", "*", "FROM", "claims", "JOIN", "documents", "ON",
        "<condition>", "<fence>">> }

\* the messages the executions resolve: one a template answers, two that
\* reach the cache lookup with the same key, and the oldest of the earlier
\* questions asked again
CacheMessages ==
    { m \in AdHocMessages :
        m.text \in {"list all policies", "compare loss across regions",
                    "Compare Loss Across Regions "} } \cup
    { Ask(EarlierEntry(1).key, EarlierEntry(1).key, FALSE, FALSE, <<>>, <<>>, <<>>) }

InitCache ==
    /\ AgentIdle
    /\ request = [text |-> "", key |-> ""]
    /\ rpc = "idle"
    /\ retry = 0
    /\ env \in [google : BOOLEAN, openai : BOOLEAN, cube : {FALSE}]
    /\ \E n \in {_cache_max_size - 1, _cache_max_size} : _sql_cache = EarlierCache(n)
    /\ sqlCalls = <<>>
    /\ executed = <<>>
    /\ answers = <<>>
    /\ flights = NoFlights
    /\ lookup = NoLookup

\* execution e returns from _generate_sql_llm
Land(e, key, sql) ==
    flights' = [flights EXCEPT ![e] = Flight("done", key, 0, sql)]

\* one pass of the Gemini retry loop, from generate_content to the next await
\* or to the return
GeminiAttempt(e, key, attempt_no) ==
    \/ \E raw \in CacheReplies :
          LET sql == _clean_sql(raw)
          IN  /\ _sql_cache' = Cached(_sql_cache, key, sql)
              /\ sqlCalls' = Append(sqlCalls, [name |-> "gemini", result |-> "ok"])
              /\ Land(e, key, sql)
    \/ /\ sqlCalls' = Append(sqlCalls, [name |-> "gemini", result |-> "rate_limited"])
       /\ flights' = [flights EXCEPT ![e] =
                        IF attempt_no < max_retries - 1
                        THEN Flight("sleeping", key, attempt_no + 1, <<>>)
                        ELSE Flight("done", key, 0, <<>>)]
       /\ UNCHANGED _sql_cache
    \/ /\ sqlCalls' = Append(sqlCalls, [name |-> "gemini", result |-> "raised"])
       /\ Land(e, key, <<>>)
       /\ UNCHANGED _sql_cache

\* _generate_sql_llm from its first line to its first await or its return
Enter(e) ==
    /\ flights[e].at = "new"
    /\ \E message \in CacheMessages :
          IF ResolvedWithoutProvider(message, _sql_cache) # <<>>
          THEN /\ flights' = [flights EXCEPT ![e] =
                                Flight(IF ResolvedWithoutProvider(message, <<>>) = <<>>
                                       THEN "cached" ELSE "done", message.key, 0, <<>>)]
               /\ UNCHANGED <<_sql_cache, sqlCalls>>
          ELSE IF env.google THEN GeminiAttempt(e, message.key, 0)
          ELSE IF env.openai
          THEN /\ flights' = [flights EXCEPT ![e] = Flight("openai", message.key, 0, <<>>)]
               /\ UNCHANGED <<_sql_cache, sqlCalls>>
          ELSE /\ Land(e, message.key, <<>>)
               /\ UNCHANGED <<_sql_cache, sqlCalls>>
    /\ UNCHANGED <<request, rpc, retry, env, executed, answers>>
    /\ UNCHANGED <<agentVars, lookup>>

\* asyncio.sleep(wait_time) is over: the next Gemini attempt
Wake(e) ==
    /\ flights[e].at = "sleeping"
    /\ GeminiAttempt(e, flights[e].key, flights[e].retry)
    /\ UNCHANGED <<request, rpc, retry, env, executed, answers>>
    /\ UNCHANGED <<agentVars, lookup>>

\* the awaited OpenAI call returns: clean the reply, put it, return it
OpenAIReturns(e) ==
    /\ flights[e].at = "openai"
    /\ \E raw \in CacheReplies :
          LET sql == _clean_sql(raw)
          IN  /\ _sql_cache' = Cached(_sql_cache, flights[e].key, sql)
              /\ Land(e, flights[e].key, sql)
    /\ sqlCalls' = Append(sqlCalls, [name |-> "openai", result |-> "ok"])
    /\ UNCHANGED <<request, rpc, retry, env, executed, answers>>
    /\ UNCHANGED <<agentVars, lookup>>

\* the awaited OpenAI call raises: except Exception, return None
OpenAIRaises(e) ==
    /\ flights[e].at = "openai"
    /\ Land(e, flights[e].key, <<>>)
    /\ sqlCalls' = Append(sqlCalls, [name |-> "openai", result |-> "raised"])
    /\ UNCHANGED <<request, rpc, retry, env, _sql_cache, executed, answers>>
    /\ UNCHANGED <<agentVars, lookup>>

NextCache ==
    \E e \in Executions :
        \/ Enter(e)
        \/ Wake(e)
        \/ OpenAIReturns(e)
        \/ OpenAIRaises(e)

SpecCache == InitCache /\ [][NextCache]_vars

(***************************************************************************)
(* The query library's trigger matcher.  Here a text is the sequence of    *)
(* its characters, so that `trigger in lower` is a substring test and      *)
(* re.findall(r'\b\w+\b', ...) cuts the text at the blanks.                *)
(***************************************************************************)
MaxChars == 5

Alphabet == {"a", "b", "c", "d", "A", " "}

LowerChar(c) == IF c = "A" THEN "a" ELSE c

\* str.lower()
LowerChars(text) == [ i \in 1..Len(text) |-> LowerChar(text[i]) ]

RECURSIVE LStripChars(_)
LStripChars(text) ==
    IF text # <<>> /\ Head(text) = " " THEN LStripChars(Tail(text)) ELSE text

\* str.strip()
StripChars(text) == Reverse(LStripChars(Reverse(LStripChars(text))))

\* phrase in text
Contains(text, phrase) ==
    \E i \in 0..(Len(text) - Len(phrase)) : SubSeq(text, i + 1, i + Len(phrase)) = phrase

\* set(re.findall(r'\b\w+\b', text)): the maximal runs without a blank
WordsOf(text) ==
    { SubSeq(text, x[1], x[2]) :
        x \in { y \in (1..Len(text)) \X (1..Len(text)) :
                  /\ y[1] <= y[2]
                  /\ \A k \in y[1]..y[2] : text[k] # " "
                  /\ y[1] = 1 \/ text[y[1] - 1] = " "
                  /\ y[2] = Len(text) \/ text[y[2] + 1] = " " } }

\* an entry of QUERY_LIBRARY: its id and its trigger phrases
Entry(id, triggers) == [id |-> id, triggers |-> triggers]

\* all_trigger_words of an entry
TriggerWords(entry) == UNION { WordsOf(entry.triggers[k]) : k \in 1..Len(entry.triggers) }

\* the libraries the matcher is run on, each in registration order
Libraries == {
    <<>>,
    << Entry("Q1", <<<<"a", " ", "b", " ", "c", " ", "d", " ", "a", "b">>>>), Entry("Q2", <<<<"c", " ", "d">>>>) >>,
    << Entry("Q1", <<<<"a", " ", "b", " ", "c">>>>), Entry("Q2", <<<<"c", " ", "b", " ", "a">>>>), Entry("Q3", <<>>) >>,
    << Entry("Q1", <<<<"a", " ", "b", " ", "c">>, <<"d", " ", "a", "b", " ", "b", "a">>>>), Entry("Q2", <<<<"d", " ", "c">>, <<"b", " ", "a">>>>) >>,
    << Entry("Q1", <<<<"a", " ", "b">>>>), Entry("Q2", <<<<"a", "b">>, <<"b">>>>) >>
}

\* pass 1: the first entry, in registration order, one of whose triggers is
\* a substring of the message; 0 when there is none
RECURSIVE ExactFrom(_, _, _)
ExactFrom(lower, library, i) ==
    IF i > Len(library) THEN 0
    ELSE IF \E k \in 1..Len(library[i].triggers) : Contains(lower, library[i].triggers[k])
    THEN i
    ELSE ExactFrom(lower, library, i + 1)

\* a score overlap / total, kept as the two integers; 0 is 0 / 1
Score(overlap, total) == [overlap |-> overlap, total |-> total]

\* a > b on scores
Above(a, b) == a.overlap * b.total > b.overlap * a.total

\* a >= 0.4
AtLeastThreshold(a) == 10 * a.overlap >= 4 * a.total

\* pass 2 with the tie going to the entry registered last
RECURSIVE BestFromLastWins(_, _, _, _, _)
BestFromLastWins(msg_words, library, i, best_score, best_match) ==
    IF i > Len(library) THEN [score |-> best_score, match |-> best_match]
    ELSE LET all_trigger_words == TriggerWords(library[i])
             overlap == Cardinality(msg_words \cap all_trigger_words)
             score == Score(overlap, Cardinality(all_trigger_words))
         IN  IF all_trigger_words = {}
             THEN BestFromLastWins(msg_words, library, i + 1, best_score, best_match)
             ELSE IF ~Above(best_score, score) /\ overlap >= 2
             THEN BestFromLastWins(msg_words, library, i + 1, score, i)
             ELSE BestFromLastWins(msg_words, library, i + 1, best_score, best_match)

\* pass 2: the loop over the entries from entry i on
RECURSIVE BestFrom(_, _, _, _, _)
BestFrom(msg_words, library, i, best_score, best_match) ==
    IF i > Len(library) THEN [score |-> best_score, match |-> best_match]
    ELSE LET all_trigger_words == TriggerWords(library[i])
             overlap == Cardinality(msg_words \cap all_trigger_words)
             score == Score(overlap, Cardinality(all_trigger_words))
         IN  IF all_trigger_words = {}
             THEN BestFrom(msg_words, library, i + 1, best_score, best_match)
             ELSE IF Above(score, best_score) /\ overlap >= 2
             THEN BestFrom(msg_words, library, i + 1, score, i)
             ELSE BestFrom(msg_words, library, i + 1, best_score, best_match)

\* the id of the entry match_query returns, or NoneVal
match_query(message, library) ==
    LET lower == StripChars(LowerChars(message))
        exact == ExactFrom(lower, library, 1)
        best == BestFrom(WordsOf(lower), library, 1, Score(0, 1), 0)
    IN  IF exact # 0 THEN library[exact].id
        ELSE IF best.match # 0 /\ AtLeastThreshold(best.score) THEN library[best.match].id
        ELSE NoneVal

LibraryMessages == UNION { [1..n -> Alphabet] : n \in 0..MaxChars }

InitLibrary ==
    /\ AgentIdle
    /\ request = [text |-> "", key |-> ""]
    /\ rpc = "idle"
    /\ retry = 0
    /\ env = [google |-> FALSE, openai |-> FALSE, cube |-> FALSE]
    /\ _sql_cache = <<>>
    /\ sqlCalls = <<>>
    /\ executed = <<>>
    /\ answers = <<>>
    /\ flights = NoFlights
    /\ \E message \in LibraryMessages, library \in Libraries :
          lookup = [message |-> message, library |-> library, result |-> "unset"]

MatchQuery ==
    /\ lookup.result = "unset"
    /\ lookup' = [lookup EXCEPT !.result = match_query(lookup.message, lookup.library)]
    /\ UNCHANGED <<agentVars, request, rpc, retry, env, _sql_cache, sqlCalls, executed, answers, flights>>

NextLibrary == MatchQuery

SpecLibrary == InitLibrary /\ [][NextLibrary]_vars

\* the tables a statement reads: the names after FROM or JOIN and the names
\* that continue a FROM list after a comma, quoted or not, lower-cased
Unquoted(w) == IF w = "\"sqlite_master\"" THEN "sqlite_master" ELSE SqlLower(w)

RECURSIVE IsTablePosition(_, _)
IsTablePosition(sql, i) ==
    /\ i > 1
    /\ i <= Len(sql)
    /\ \/ SqlLower(sql[i - 1]) \in {"from", "join"}
       \/ sql[i - 1] = "," /\ IsTablePosition(sql, i - 2)

ReferencedTables(sql) == { Unquoted(sql[i]) : i \in { j \in 1..Len(sql) : IsTablePosition(sql, j) } }

\* C2 as stated: every statement handed to the read-query executor starts
\* with SELECT (in any case), holds none of insert, update, delete, drop,
\* alter, pragma, attach, and references only tables of the allow-list; a
\* statement failing one of these is rejected with a reason instead.
C2_OnlyValidatedSqlExecutes ==
    \A i \in 1..Len(executed) :
        /\ SqlLower(Head(executed[i])) = "select"
        /\ \A k \in 1..Len(executed[i]) : ~HoldsForbiddenWord(executed[i][k])
        /\ ReferencedTables(executed[i]) \subseteq JOIN_GRAPH_keys

\* the identifier-shaped tokens of a text, by the router's two patterns, that
\* name no policy and no claim of the snapshot
UnknownIdentifiers(text, dashboard_data) ==
    { text[i].s : i \in { j \in 1..Len(text) :
        \/ POLICY_REGEX(text[j].s) /\ Upper(text[j].s) \notin dashboard_data.policies
        \/ CLAIM_REGEX(text[j].s) /\ Upper(text[j].s) \notin dashboard_data.claims } }

\* C1 as stated: after validate_output, and in the response handed to the
\* caller, no token that the router's policy or claim pattern recognises names
\* an identifier absent from the snapshot's known sets; each such token has
\* been replaced by the redaction marker.
C1_NoUnknownIdentifierLeaves ==
    /\ Visited("validate_output") =>
          UnknownIdentifiers(state.response_text, state.dashboard_data) = {}
    /\ Ended =>
          UnknownIdentifiers(outcome.value.response, state.dashboard_data) = {}

(***************************************************************************)
(* Properties of a pipeline run                                            *)
(***************************************************************************)
\* C3 as stated: once check_confidence has run, the confidence of the run is
\* an integer in [45, 95], except on the out-of-scope branch where it is 0.
C3_ConfidenceIn45To95 ==
    Visited("check_confidence") =>
        IF state.out_of_scope
        THEN state.confidence = 0
        ELSE state.confidence \in MinConfidence..MaxConfidence

\* C3, amended: once check_confidence has run, the confidence is 0 on the
\* out-of-scope branch; it is the estimate lowered by 25 with a floor of 30,
\* hence in [30, 70], when the evidence-without-target rule applied; and it is
\* in [45, 95] otherwise.  The estimate recorded in the provenance is in
\* [45, 95] whenever the request is in scope.
C3_ConfidenceBounds ==
    Visited("check_confidence") =>
        LET estimate == state.analysis_object.provenance.confidence
        IN  IF state.out_of_scope
            THEN state.confidence = 0 /\ estimate = 0
            ELSE /\ estimate \in MinConfidence..MaxConfidence
                 /\ IF EvidenceWithoutTarget(state)
                    THEN /\ state.confidence = Max(estimate - EvidencePenalty, EvidenceFloor)
                         /\ state.confidence \in
                               EvidenceFloor..(MaxConfidence - EvidencePenalty)
                    ELSE state.confidence = estimate

\* a run that ended with the evidence-without-target rule applied to an
\* estimate at the lower clamp
C3_Witness ==
    /\ Ended
    /\ Visited("check_confidence")
    /\ EvidenceWithoutTarget(state)
    /\ state.analysis_object.provenance.confidence = MinConfidence
    /\ state.confidence = EvidenceFloor

\* C4 as stated: a run that has ended executed route_intent, fetch_data,
\* fetch_guidelines, fetch_knowledge, check_confidence, exactly one of clarify
\* and reason, validate_output and format_output, in that order, none skipped
\* and none repeated.
C4_AllStagesInOrder ==
    Ended => trace \in {StagesToClarify, StagesToReason}

\* C5: when check_confidence leaves a confidence below 50 the run goes to
\* clarify and never enters reason.
C5_LowConfidenceClarifies ==
    (Visited("check_confidence") /\ state.confidence < ClarifyBelow) =>
        /\ pc \notin {"reason", "reason_await", "reason_hung"}
        /\ ~Visited("reason")
        /\ pc = "clarify" \/ Visited("clarify")
        /\ llmCalls = <<>>

\* a run with an in-scope estimate of 48 that ended through clarify
C5_Witness ==
    /\ Ended
    /\ ~state.out_of_scope
    /\ ~EvidenceWithoutTarget(state)
    /\ state.confidence = 48
    /\ trace = StagesToClarify

\* C6: a run that takes the clarify branch calls no chat-completion provider
\* at any point, and the text it returns is the fixed clarify message or the
\* fixed out-of-scope message.
C6_ClarifyIsDeterministic ==
    (pc = "clarify" \/ Visited("clarify")) =>
        /\ llmCalls = <<>>
        /\ providers = <<>>
        /\ Visited("clarify") =>
              /\ state.response_text \in {CLARIFY_TEXT, OUT_OF_SCOPE_TEXT}
              /\ state.provider \in {"intent-engine", "guardrail"}
              /\ state.response_text = OUT_OF_SCOPE_TEXT <=> state.out_of_scope
        /\ Ended =>
              /\ outcome.kind = "returned"
              /\ outcome.value.response \in {CLARIFY_TEXT, OUT_OF_SCOPE_TEXT}

\* a run that returned the fixed clarify message to the caller
C6_Witness ==
    /\ Ended
    /\ Visited("clarify")
    /\ outcome.kind = "returned"
    /\ outcome.value.response = CLARIFY_TEXT
    /\ outcome.value.provider = "intent-engine"

\* the position of a provider in the priority chain
ChainIndex(name) == CHOOSE i \in 1..Len(_PROVIDER_CHAIN) : _PROVIDER_CHAIN[i] = name

\* C7: reason calls the available providers one at a time in priority order
\* (Bedrock, Gemini, Claude, OpenAI), every call before the last one it makes
\* has failed, it stops at the first provider that answers and labels the
\* answer with that provider, and it returns the deterministic mock, labelled
\* "mock", exactly when every available provider failed or none is available.
C7_ProviderFallbackChain ==
    (pc \in {"reason_await", "reason_hung"} \/ Visited("reason")) =>
        /\ \A i, j \in 1..Len(providers) :
              i < j => ChainIndex(providers[i]) < ChainIndex(providers[j])
        /\ Len(llmCalls) <= Len(providers)
        /\ \A i \in 1..Len(llmCalls) : llmCalls[i].name = providers[i]
        /\ \A i \in 1..(Len(llmCalls) - 1) : llmCalls[i].result = "raised"
        /\ pc = "validate_output" =>
              IF \E i \in 1..Len(llmCalls) : llmCalls[i].result = "ok"
              THEN /\ llmCalls[Len(llmCalls)].result = "ok"
                   /\ state.provider = llmCalls[Len(llmCalls)].name
                   /\ state.response_text \in Answers
              ELSE /\ Len(llmCalls) = Len(providers)
                   /\ state.provider = "mock"
                   /\ state.response_text = MockOf(state)

\* reason fell back from Bedrock to Gemini, and Gemini answered
C7_Witness ==
    /\ pc = "validate_output"
    /\ Visited("reason")
    /\ Len(providers) >= 3
    /\ llmCalls = << [name |-> "bedrock", result |-> "raised"],
                     [name |-> "gemini", result |-> "ok"] >>
    /\ state.provider = "gemini"

\* C8 as stated: no provider call blocks a run for ever, so every run
\* eventually ends.
C8_EveryRunEnds == <>Ended

\* C9: an exception raised by a stage is caught at the orchestrator boundary
\* and the caller gets a returned error response labelled "error"; no
\* exception propagates to the caller.
C9_ExceptionsAreReturned ==
    /\ outcome.kind # "raised"
    /\ (Ended /\ ~Visited("format_output")) =>
          /\ outcome.kind = "returned"
          /\ outcome.value.keys = ResponseKeys
          /\ outcome.value.provider = "error"
          /\ outcome.value.clarification_needed = FALSE
    /\ Ended => outcome.kind = "returned"

\* the knowledge search raised and the caller got the error response
C9_Witness ==
    /\ Ended
    /\ trace = <<"route_intent", "fetch_data", "fetch_guidelines">>
    /\ "knowledge" \in searches
    /\ outcome = Returned(ErrorResponse("Exception"))

\* the providers and fixed labels a well-formed payload carries
AnswerLabels == Range(_PROVIDER_CHAIN) \cup {"mock", "intent-engine", "guardrail"}

\* C10 as stated: whatever fails along the way, the caller gets a well-formed
\* payload whose text is a provider answer, the deterministic mock or a fixed
\* clarify or guardrail message, never the text of an internal error.
C10_NeverAnInternalError ==
    Ended =>
        /\ outcome.kind = "returned"
        /\ outcome.value.keys = ResponseKeys
        /\ outcome.value.provider \in AnswerLabels
        /\ \A i \in 1..Len(outcome.value.response) :
              outcome.value.response[i] \notin Range(ERROR_TEXT("Exception"))

\* C11: a message that holds an off-topic pattern and no insurance-domain
\* term is flagged out-of-scope by route_intent; from then on neither
\* similarity-search corpus is queried and no provider is called, after
\* check_confidence the confidence is exactly 0 and the run goes through
\* clarify, and it ends with the fixed out-of-scope text.
C11_OutOfScopeShortCircuits ==
    (Visited("route_intent") /\ _is_out_of_scope(state.message)) =>
        /\ state.out_of_scope
        /\ searches = {}
        /\ llmCalls = <<>>
        /\ providers = <<>>
        /\ pc \notin {"reason", "reason_await", "reason_hung"}
        /\ ~Visited("reason")
        /\ Visited("check_confidence") =>
              /\ state.confidence = 0
              /\ state.clarification_needed
              /\ pc = "clarify" \/ Visited("clarify")
        /\ Ended =>
              /\ trace = StagesToClarify
              /\ outcome.value.response = OUT_OF_SCOPE_TEXT
              /\ outcome.value.provider = "guardrail"

\* an out-of-scope run that went through both retrieval stages and ended
C11_Witness ==
    /\ Ended
    /\ _is_out_of_scope(state.message)
    /\ state.confidence = 0
    /\ trace = StagesToClarify
    /\ searches = {}
    /\ outcome.value.provider = "guardrail"

\* C12 as stated: a message of at most 5 words that asks for evidence, with
\* no identifier in it and none found in the history, leaves check_confidence
\* with clarification forced, a confidence of at most 50 and suggested
\* intents that include the policy-evidence and the claim-evidence example,
\* whatever the guideline and knowledge searches returned.
C12_EvidenceRequestClarifies ==
    ( /\ Visited("check_confidence")
      /\ AnyIn(state.message, EVIDENCE_KEYWORDS)
      /\ state.message.words <= 5
      /\ ~HasEntity(state.entities) ) =>
        /\ state.clarification_needed
        /\ state.confidence <= 50
        /\ {"Policy evidence", "Claim evidence"} \subseteq Range(state.suggested_intents)
        /\ ~Visited("reason")

\* the message of the request in hand, and the answer to it once given
Asked == CHOOSE m \in AdHocMessages : m.text = request.text

Answered == rpc = "idle" /\ answers # <<>>

LastAnswer == answers[Len(answers)]

\* C13: the tiers are tried in order and the first hit wins.  A request whose
\* message matches a dashboard template gets that template's statement, also
\* when a simple pattern or a library entry matches too; otherwise a simple
\* pattern's statement comes before the library's; the library's statement
\* is used only when both template tiers missed; and a provider is called
\* only when templates and library all missed.  (A request the data cube
\* answers uses no statement at all.)
C13_TiersInOrder ==
    /\ rpc # "idle" =>
          Asked.dashboard = <<>> /\ Asked.simple = <<>> /\ Asked.library = <<>>
    /\ Answered =>
          IF LastAnswer.kind = "cube"
          THEN env.cube /\ Asked.cube /\ LastAnswer.sql = <<>>
          ELSE IF Asked.dashboard # <<>> THEN LastAnswer.sql = Asked.dashboard
          ELSE IF Asked.simple # <<>> THEN LastAnswer.sql = Asked.simple
          ELSE IF Asked.library # <<>> THEN LastAnswer.sql = Asked.library
          ELSE LastAnswer.sql \notin
                  {DASHBOARD_TREND, SIMPLE_CLAIMS, SIMPLE_POLICIES,
                   LIBRARY_CL_009, LIBRARY_DE_002, LIBRARY_PF_009}

\* "show claims trend" matches a dashboard template, a simple pattern and a
\* library entry, and the dashboard template's statement was executed
C13_Witness ==
    /\ Answered
    /\ request.text = "show claims trend"
    /\ Asked.library # <<>>
    /\ LastAnswer.kind = "plan"
    /\ LastAnswer.sql = DASHBOARD_TREND
    /\ executed[Len(executed)] = DASHBOARD_TREND

\* C14 as stated: a message that holds filter language (" for ", "where" or
\* a digit) never gets a portfolio-wide template statement from the
\* deterministic tier; it falls through to the library or to a provider.
C14_NoGlobalTemplateForFilteredMessage ==
    (Answered /\ Asked.filter) =>
        LastAnswer.sql \notin {DASHBOARD_TREND, SIMPLE_CLAIMS, SIMPLE_POLICIES}

\* the message matches no template and no library entry, and the data cube
\* does not answer it
Generative(message) ==
    /\ message.dashboard = <<>> /\ message.simple = <<>> /\ message.library = <<>>
    /\ ~(env.cube /\ message.cube)

C17_OnlyValidatedStatementsCached ==
    /\ \A i \in 1..Len(_sql_cache) : _validate_sql(_sql_cache[i].sql).ok
    /\ (Answered /\ LastAnswer.kind = "rejected") =>
          \A i \in 1..Len(_sql_cache) : _sql_cache[i].sql # LastAnswer.sql

\* C18: when no template and no library entry matches, the cache has no
\* statement for the message and no provider is configured, the request is
\* answered, in the step that asked it, with the empty plan: no statement,
\* no tables, reason codes no_sql and no_provider; no provider is called
\* and nothing is executed.
C18_NoProviderGivesEmptyPlan ==
    [][ (/\ rpc = "idle"
         /\ request' # request \/ answers' # answers
         /\ Generative(Asked')
         /\ ~CacheHas(_sql_cache, request'.key)
         /\ ~env.google /\ ~env.openai) =>
            /\ rpc' = "idle"
            /\ answers' = Append(answers, NoSqlAnswer)
            /\ NoSqlAnswer.sql = <<>> /\ NoSqlAnswer.tables = <<>>
            /\ NoSqlAnswer.reason_codes = <<"no_sql", "no_provider">>
            /\ executed' = executed
            /\ sqlCalls' = sqlCalls
            /\ _sql_cache' = _sql_cache
      ]_vars

\* "count documents by uploader" was asked with no provider configured and
\* got the empty plan
C18_Witness ==
    /\ Answered
    /\ request.text = "count documents by uploader"
    /\ ~env.google /\ ~env.openai
    /\ LastAnswer = NoSqlAnswer
    /\ executed = <<>>
    /\ sqlCalls = <<>>

\* the identifiers a turn or a message holds, upper-cased
IdsOf(x) == { Upper(id) : id \in {x.policy, x.claim} \ {""} }

\* the positions of the last HistoryWindow turns of a history
Window(history) ==
    { i \in 1..Len(history) : i > Len(history) - HistoryWindow }

\* C19: after route_intent, when the message holds an identifier the
\* entities and the intent are those of the message alone, whatever the
\* history holds.  When it holds none, the entities come from the most
\* recent turn among the last 6 that holds an identifier (policy and claim
\* of that turn, upper-cased) and the intent becomes policy_risk_summary, or
\* claim_summary when the turn holds no policy; when none of the last 6
\* turns holds an identifier the entities stay empty and the intent is the
\* message's.  Every identifier in the entities is the upper-cased form of
\* one in the message or in one of those 6 turns.
C19_EntityFromLastSixTurns ==
    Visited("route_intent") =>
        LET m == state.message
            h == state.history
            own == _route_intent(m)
            with_id == { i \in Window(h) : IdsOf(h[i]) # {} }
            ids == {state.entities.policy_number, state.entities.claim_number} \ {NoneVal}
        IN  /\ state.entities = state.intent_payload.entities
            /\ ids \subseteq IdsOf(m) \cup UNION { IdsOf(h[i]) : i \in Window(h) }
            /\ IF IdsOf(m) # {}
               THEN /\ state.entities = own.entities
                    /\ state.intent_payload.intent = own.intent
                    /\ ids = IdsOf(m)
               ELSE IF with_id = {}
               THEN /\ ids = {}
                    /\ state.intent_payload.intent = own.intent
               ELSE LET k == CHOOSE i \in with_id : \A j \in with_id : j <= i
                    IN  /\ ids = IdsOf(h[k])
                        /\ state.entities.policy_number =
                              (IF h[k].policy # "" THEN Upper(h[k].policy) ELSE NoneVal)
                        /\ state.entities.claim_number =
                              (IF h[k].claim # "" THEN Upper(h[k].claim) ELSE NoneVal)
                        /\ state.intent_payload.intent =
                              (IF h[k].policy # "" THEN "policy_risk_summary"
                               ELSE "claim_summary")

\* a conversation of 7 turns whose oldest turn holds a policy, outside the
\* window, and whose third turn holds a claim in lower case: the claim was
\* taken, upper-cased, and the policy was not
C19_Witness ==
    /\ Visited("route_intent")
    /\ state.message.text = "show evidence"
    /\ Len(state.history) = 7
    /\ state.history[1] = Turn("COMM-2024-016", "")
    /\ state.history[3] = Turn("", "CLM-2024-999")
    /\ \A i \in 4..7 : state.history[i] = Turn("", "")
    /\ state.entities.claim_number = "CLM-2024-999"
    /\ state.entities.policy_number = NoneVal
    /\ state.intent_payload.intent = "claim_summary"

\* the draft after the length cap, which is the text the redaction reads
Capped(text) ==
    IF TextLen(text) > MaxResponseLen
    THEN Take(text, MaxResponseLen) \o <<TRUNCATION_MARK>>
    ELSE text

\* C20: a validate_output step that does not return the apology leaves the
\* capped draft as it was, token by token, except that each token spelling
\* an identifier the step found (COMM-dddd-ddd absent from the known
\* policies, CLM-dddd-ddd absent from the known claims) becomes the
\* redaction marker; identifiers of the known sets stay as written.  When
\* at least one was found the correction note is appended, once, at the
\* end; when none was found the text has no note.  In both cases the
\* guardrail is marked as passed and the provider is left alone.
C20_RedactionTouchesOnlyUnknownIds ==
    [][ (/\ pc = "validate_output" /\ pc' = "format_output"
         /\ ~(TextLen(Strip(state.response_text)) < MinResponseLen
                /\ state.show_canvas_summary)) =>
          LET worked == Capped(state.response_text)
              after == state'.response_text
              known == state.dashboard_data
              found == { i \in 1..Len(worked) :
                           \/ worked[i].s \in UpperCommIds \ known.policies
                           \/ worked[i].s \in UpperClmIds \ known.claims }
              notes == { i \in 1..Len(after) : after[i] = CORRECTION_NOTE }
          IN  /\ state'.guardrail_passed
              /\ state'.provider = state.provider
              /\ \A i \in 1..Len(worked) :
                    after[i] = IF i \in found THEN REDACTED ELSE worked[i]
              /\ IF found # {}
                 THEN Len(after) = Len(worked) + 1 /\ notes = {Len(after)}
                 ELSE after = worked /\ notes = {}
      ]_vars

\* the draft "COMM-2024-001 COMM-2024-999" with COMM-2024-001 known: the
\* known identifier is still there, the unknown one is redacted, the note
\* follows
C20_Witness ==
    /\ Visited("validate_output")
    /\ "COMM-2024-001" \in state.dashboard_data.policies
    /\ state.response_text = <<Tok("COMM-2024-001", 13), REDACTED, CORRECTION_NOTE>>
    /\ state.guardrail_passed

\* C16: whatever the interleaving of the executions, the cache holds at
\* most _cache_max_size entries, no key twice, and every entry is either one
\* of the earlier generations, unchanged, or the non-empty statement a
\* provider generated for an execution whose message has the entry's key.
C16_CacheBoundedUnderInterleaving ==
    /\ Len(_sql_cache) <= _cache_max_size
    /\ \A i \in 1..Len(_sql_cache) :
          \/ _sql_cache[i] \in EarlierEntries
          \/ \E e \in Executions :
                /\ flights[e].at = "done"
                /\ flights[e].sql # <<>>
                /\ _sql_cache[i] = [key |-> flights[e].key, sql |-> flights[e].sql]
    /\ Cardinality({ _sql_cache[i].key : i \in 1..Len(_sql_cache) }) = Len(_sql_cache)

\* the cache was full; execution 2 missed the cache for a key and still
\* awaits its provider while execution 1, for the same key, has put its
\* statement: the oldest entry is gone and the cache is full again
C16_Witness ==
    /\ Len(_sql_cache) = _cache_max_size
    /\ _sql_cache[1] = EarlierEntry(2)
    /\ flights[1].at = "done"
    /\ flights[1].sql # <<>>
    /\ flights[2].at = "openai"
    /\ flights[2].key = flights[1].key
    /\ _sql_cache[_cache_max_size] = [key |-> flights[1].key, sql |-> flights[1].sql]

\* C21 as stated: a run on a greeting-only message ends with a payload whose
\* analysis object is null and whose source list is empty, whatever text
\* clarify or reason produced.
C21_GreetingCarriesNoAnalysis ==
    (Ended /\ state.message.greeting) =>
        /\ outcome.value.analysis_object.none
        /\ outcome.value.sources = <<>>

Looked == StripChars(LowerChars(lookup.message))

OverlapOf(i) == Cardinality(WordsOf(Looked) \cap TriggerWords(lookup.library[i]))

TotalOf(i) == Cardinality(TriggerWords(lookup.library[i]))

\* C23: match_query returns the first-registered entry one of whose trigger
\* phrases is a substring of the lower-cased, trimmed message, if there is
\* one.  Otherwise, among the entries with at least 2 overlapping words and
\* a score overlap / total of at least 0.4, it returns the one with the
\* highest score, the first-registered one among equals; and None when no
\* entry qualifies.
C23_MatchQueryPicksBest ==
    lookup.result # "unset" =>
        LET library == lookup.library
            exact == { i \in 1..Len(library) :
                         \E k \in 1..Len(library[i].triggers) :
                            Contains(Looked, library[i].triggers[k]) }
            accepted == { i \in 1..Len(library) :
                            /\ OverlapOf(i) >= 2
                            /\ 5 * OverlapOf(i) >= 2 * TotalOf(i) }
            first(S) == CHOOSE i \in S : \A j \in S : i <= j
            top == { i \in accepted :
                       \A j \in accepted :
                          OverlapOf(j) * TotalOf(i) <= OverlapOf(i) * TotalOf(j) }
        IN  IF exact # {} THEN lookup.result = library[first(exact)].id
            ELSE IF accepted # {} THEN lookup.result = library[first(top)].id
            ELSE lookup.result = NoneVal

\* "a b" against an entry whose triggers hold the five words a, b, c, d and
\* ab: no phrase matches, two words overlap, the score is exactly 0.4, and
\* the entry is returned
C23_Witness ==
    /\ lookup.result = "Q1"
    /\ lookup.message = <<"a", " ", "b">>
    /\ Len(lookup.library) = 2
    /\ TotalOf(1) = 5
    /\ OverlapOf(1) = 2
    /\ ~Contains(Looked, lookup.library[1].triggers[1])

\* two entries score 2/3 for "b a": the one registered first is returned
C23_TieWitness ==
    /\ lookup.result = "Q1"
    /\ lookup.message = <<"b", " ", "A">>
    /\ Len(lookup.library) = 3
    /\ OverlapOf(1) = 2 /\ TotalOf(1) = 3
    /\ OverlapOf(2) = 2 /\ TotalOf(2) = 3

\* C24 as stated: the cache is an LRU in which a hit counts as a use: the
\* entry a put evicts is never one that an execution has read from the cache
\* while entries nobody has read since they were stored remain.
C24_HitEntryIsNotNextEvicted ==
    [][ (/\ _sql_cache # <<>>
         /\ ~CacheHas(_sql_cache', _sql_cache[1].key)
         /\ \E i \in 2..Len(_sql_cache) :
               \A e \in Executions :
                  ~(flights[e].at = "cached" /\ flights[e].key = _sql_cache[i].key)) =>
            \A e \in Executions :
               ~(flights[e].at = "cached" /\ flights[e].key = _sql_cache[1].key)
      ]_vars

\* C25 as stated: in the payload route_intent hands on, a message with a
\* chart, trend or visualization keyword has the ad-hoc query intent, whether
\* its entity came from the message, from the history, or is absent.
C25_VisualKeywordIsAdHoc ==
    (Visited("route_intent") /\ AnyIn(state.message, VisualWords)) =>
        state.intent_payload.intent = "ad_hoc_query"

\* the strong intent keywords of the specification
StrongIntentWords == {"summarize", "trend", "dashboard", "memo", "decide", "recommend"}

\* the score of the specification: the recognised domain keywords are read as
\* the terms of INSURANCE_CONTEXT together with the strong intent keywords,
\* and a portfolio-style query as one whose entity is the portfolio
SpecifiedAdjustments(intent, analysis_object, m, entities) ==
    LET domain == AnyIn(m, INSURANCE_CONTEXT \cup StrongIntentWords)
    IN  (IF DOMAIN analysis_object.metrics # {} THEN <<6>> ELSE <<>>) \o
        (IF analysis_object.evidence # <<>> THEN <<6>> ELSE <<>>) \o
        (IF intent = "ad_hoc_query" THEN <<-6>> ELSE <<>>) \o
        (IF m.words <= 3 /\ ~domain THEN <<-14>> ELSE <<>>) \o
        (IF ~HasEntity(entities) THEN <<-8>> ELSE <<>>) \o
        (IF entities.entity = "portfolio" /\ domain THEN <<10>> ELSE <<>>) \o
        (IF AnyIn(m, StrongIntentWords) THEN <<4>> ELSE <<>>)

RECURSIVE Sum(_)
Sum(deltas) == IF deltas = <<>> THEN 0 ELSE Head(deltas) + Sum(Tail(deltas))

\* check_confidence was the last node to run
JustScored == trace # <<>> /\ trace[Len(trace)] = "check_confidence"

\* C26 as stated: the scorer returns clamp(72 + 6 metrics + 6 evidence
\* - 6 ad-hoc - 14 very short without a domain keyword - 8 no entity
\* + 10 portfolio-style with a domain keyword + 4 strong intent keyword,
\* 45, 95), with one reason code per adjustment applied.
C26_ScoreIsTheSpecifiedSum ==
    (JustScored /\ ~state.out_of_scope) =>
        LET adj == SpecifiedAdjustments(state.intent_payload.intent, state.analysis_object,
                                        state.message, state.entities)
            provenance == state.analysis_object.provenance
        IN  /\ provenance.confidence = Clamp(MinConfidence, BaseConfidence + Sum(adj), MaxConfidence)
            /\ Len(provenance.confidence_reason_codes) = Len(adj)

\* C27 as stated: at the end of check_confidence the confidence of the
\* pipeline state equals the confidence recorded with the reason codes in the
\* provenance of the analysis object.
C27_ConfidenceMatchesProvenance ==
    JustScored => state.confidence = state.analysis_object.provenance.confidence

\* the provider call a step records, if it records one
CallMade == Len(sqlCalls') = Len(sqlCalls) + 1
ThisCall == sqlCalls'[Len(sqlCalls')]

\* the step ends the request with the answer that no statement was generated
GaveUp == answers' = Append(answers, NoSqlAnswer) /\ rpc' = "idle"

\* C28 as stated: with both backends configured, a failure of Gemini (an
\* error, or the last rate-limited attempt) does not end the request: OpenAI
\* is called before the resolver gives up.
C28_GeminiFailureFallsThroughToOpenAI ==
    [][ (/\ env.google /\ env.openai
         /\ CallMade /\ ThisCall.name = "gemini" /\ ThisCall.result # "ok") =>
            ~GaveUp
      ]_vars

\* C29: a Gemini call is attempt retry + 1 <= 3 of its request; a rate-limit
\* error on attempt 1 or 2 leaves the request waiting for the next attempt; a
\* rate-limit error on attempt 3 and any other error on any attempt end the
\* request with the no-statement answer, nothing executed and nothing
\* raised; a success ends the attempts.
C29_GeminiAtMostThreeAttempts ==
    [][ (CallMade /\ ThisCall.name = "gemini") =>
            /\ rpc = "gemini"
            /\ retry + 1 <= max_retries
            /\ IF ThisCall.result = "rate_limited" /\ retry + 1 < max_retries
               THEN /\ rpc' = "gemini" /\ retry' = retry + 1
                    /\ answers' = answers /\ executed' = executed
               ELSE IF ThisCall.result = "ok"
               THEN rpc' = "idle" /\ Len(answers') = Len(answers) + 1
               ELSE GaveUp /\ executed' = executed /\ _sql_cache' = _sql_cache
      ]_vars

\* a request that was rate-limited on all three attempts and was answered
\* with the no-statement answer
C29_Witness ==
    /\ rpc = "idle"
    /\ answers = <<NoSqlAnswer>>
    /\ sqlCalls = [i \in 1..max_retries |-> [name |-> "gemini", result |-> "rate_limited"]]
    /\ executed = <<>>

\* the :param slots of the library's statements
ParamSlots == {":policy_number", ":claim_number", ":category"}

\* the named parameters of a statement
NamedParams(sql) == Range(sql) \cap ParamSlots

\* the "params" of the one item of the ad-hoc plan
AdHocPlanParams == {}

\* C30 as stated: every statement the ad-hoc path passes to the executor has
\* no named parameter, or a value bound for each one.
C30_NoUnboundParameterExecuted ==
    \A i \in 1..Len(executed) : NamedParams(executed[i]) \subseteq AdHocPlanParams
====
